---------------------------- MODULE Spec2Model ----------------------------
(***************************************************************************)
(* A model of the AI Engineer agent's core library:                        *)
(*   - WorkflowKnowledgeBase (workflow-knowledge.ts): the template store,  *)
(*     its indexes and its query operations;                               *)
(*   - AIEngineerAgent (ai-agent.ts): the conversation context, intent     *)
(*     analysis, requirement extraction and the phase state machine.       *)
(*                                                                         *)
(* Strings of the program are kept as TLA+ strings.  A text (template      *)
(* name, description, tag, user message) is represented by the words it    *)
(* is made of together with, for every term of the vocabulary Terms, the   *)
(* fact whether String.prototype.includes(term) holds of its lower-cased   *)
(* form; these facts are tabulated from the literal texts of the source.   *)
(***************************************************************************)
EXTENDS Integers, Sequences, FiniteSets, TLC

VARIABLES
    workflows,          \* WorkflowKnowledgeBase.workflows   (template ids, in array order)
    categories,         \* WorkflowKnowledgeBase.categories  (Map category -> array)
    tagIndex,           \* WorkflowKnowledgeBase.tagIndex    (Map tag -> array)
    integrationIndex,   \* WorkflowKnowledgeBase.integrationIndex (Map service -> array)
    kbCall,             \* the last query made on the store and its arguments
    kbResult,           \* the value that query returned
    ctx,                \* AIEngineerAgent.context: phase and the two array references
    reqHeap,            \* the ProjectRequirement[] arrays, by reference
    histHeap,           \* the Message[] arrays, by reference
    pending,            \* processMessage calls suspended at their await, oldest first
    convPhase,          \* phase field of the context object each caller holds
    resets,             \* number of resetContext calls made so far
    intentArgs,         \* the message of a call of analyzeUserIntent
    intentResult,       \* what that call returned, once it has returned
    builder,            \* N8nWorkflowBuilder: nodeIdCounter, nodePositionX, nodePositionY
    builderArgs,        \* the arguments of a call of generateWorkflowFromBlueprint
    builderResult,      \* the N8nWorkflow[] that call returned, once it has returned
    builderEarlier,     \* the arguments of the call made on the builder before that one
    generatorCall,      \* the last BlueprintGenerator method called and its arguments
    generatorResult     \* what that call returned or threw

vars == <<workflows, categories, tagIndex, integrationIndex, kbCall, kbResult,
          ctx, reqHeap, histHeap, pending, convPhase, resets,
          intentArgs, intentResult, builder, builderArgs, builderResult,
          builderEarlier, generatorCall, generatorResult>>

kbVars == <<workflows, categories, tagIndex, integrationIndex, kbCall, kbResult>>

agentVars == <<ctx, reqHeap, histHeap, pending, convPhase, resets>>

intentVars == <<intentArgs, intentResult>>

builderVars == <<builder, builderArgs, builderResult, builderEarlier>>

generatorVars == <<generatorCall, generatorResult>>

-----------------------------------------------------------------------------
(* Generic helpers                                                         *)

Range(s) == {s[i] : i \in 1..Len(s)}

IsPrefix(s, t) == Len(s) <= Len(t) /\ SubSeq(t, 1, Len(s)) = s

Min(a, b) == IF a <= b THEN a ELSE b

\* Array.prototype.filter
RECURSIVE FilterSeq(_, _)
FilterSeq(s, keep) ==
    IF s = <<>> THEN <<>>
    ELSE IF Head(s) \in keep THEN <<Head(s)>> \o FilterSeq(Tail(s), keep)
         ELSE FilterSeq(Tail(s), keep)

\* Array.prototype.slice(0, n)
Slice0(s, n) == SubSeq(s, 1, Min(n, Len(s)))

\* One insertion step of a stable descending sort: x goes behind every element
\* whose key is not smaller than its own.
InsertDesc(sorted, x, key) ==
    LET s == sorted
        smaller == {i \in 1..Len(s) : key[s[i]] < key[x]}
        k == IF smaller = {} THEN Len(s) + 1
             ELSE CHOOSE i \in smaller : \A j \in smaller : i <= j
    IN  SubSeq(s, 1, k - 1) \o <<x>> \o SubSeq(s, k, Len(s))

RECURSIVE SortInto(_, _, _)
SortInto(sorted, rest, key) ==
    IF rest = <<>> THEN sorted
    ELSE SortInto(InsertDesc(sorted, Head(rest), key), Tail(rest), key)

\* Array.prototype.sort((a, b) => key(b) - key(a)): stable, descending by key
SortDesc(s, key) == SortInto(<<>>, s, key)

-----------------------------------------------------------------------------
(* WorkflowKnowledgeBase: the loaded templates                              *)

\* The vocabulary of terms used for queries, requirement texts and messages.
Terms == {"hello", "automate", "automation", "orders", "leads", "api", "webhook",
          "sync", "scale", "ai", "data", "order", "lead"}

\* The templates pushed by initializeWorkflows, in push order.
LoadOrder == <<"ecommerce-order-processing", "lead-scoring-qualification",
               "social-media-content-pipeline", "data-etl-pipeline",
               "ai-customer-support", "invoice-processing-automation",
               "business-intelligence-dashboard">>

TemplateIds == Range(LoadOrder)

\* Per template: category, difficulty, tags, integration services, popularity,
\* and the terms of Terms that name / description / some tag include
\* (lower-cased substring test on the literal texts).
WorkflowData == [id \in TemplateIds |->
    CASE id = "ecommerce-order-processing" ->
           [category |-> "e-commerce", difficulty |-> "intermediate", popularity |-> 95,
            tags |-> <<"orders", "inventory", "payments", "notifications", "automation">>,
            services |-> <<"Stripe", "PostgreSQL">>,
            nameHas |-> {"order"},
            descHas |-> {"automate", "order"},
            tagHas |-> {"automation", "orders", "order"}]
      [] id = "lead-scoring-qualification" ->
           [category |-> "crm-sales", difficulty |-> "advanced", popularity |-> 88,
            tags |-> <<"lead-scoring", "ai", "qualification", "routing", "crm">>,
            services |-> <<"OpenAI", "HubSpot">>,
            nameHas |-> {"ai", "lead"},
            descHas |-> {"leads", "ai", "lead"},
            tagHas |-> {"ai", "lead"}]
      [] id = "social-media-content-pipeline" ->
           [category |-> "marketing-automation", difficulty |-> "advanced", popularity |-> 92,
            tags |-> <<"ai-content", "social-media", "automation", "scheduling", "multi-platform">>,
            services |-> <<"OpenAI", "LinkedIn">>,
            nameHas |-> {"ai"},
            descHas |-> {"automate", "ai"},
            tagHas |-> {"automation", "ai"}]
      [] id = "data-etl-pipeline" ->
           [category |-> "data-processing", difficulty |-> "expert", popularity |-> 85,
            tags |-> <<"etl", "data-pipeline", "transformation", "monitoring", "big-data">>,
            services |-> <<>>,
            nameHas |-> {"data"},
            descHas |-> {"data"},
            tagHas |-> {"data"}]
      [] id = "ai-customer-support" ->
           [category |-> "customer-support", difficulty |-> "advanced", popularity |-> 90,
            tags |-> <<"ai-support", "tickets", "classification", "auto-response", "escalation">>,
            services |-> <<>>,
            nameHas |-> {"automation", "ai"},
            descHas |-> {},
            tagHas |-> {"ai"}]
      [] id = "invoice-processing-automation" ->
           [category |-> "finance-accounting", difficulty |-> "intermediate", popularity |-> 87,
            tags |-> <<"ocr", "invoices", "approval", "accounting", "automation">>,
            services |-> <<>>,
            nameHas |-> {},
            descHas |-> {},
            tagHas |-> {"automation"}]
      [] OTHER ->  \* "business-intelligence-dashboard"
           [category |-> "analytics-reporting", difficulty |-> "advanced", popularity |-> 89,
            tags |-> <<"bi", "dashboards", "visualization", "alerts", "kpis">>,
            services |-> <<>>,
            nameHas |-> {},
            descHas |-> {"automate", "data"},
            tagHas |-> {}]]

Popularity == [id \in TemplateIds |-> WorkflowData[id].popularity]

\* String.prototype.toLowerCase on the service names and filter values in use
ToLower(s) ==
    CASE s = "Stripe" -> "stripe"
      [] s = "PostgreSQL" -> "postgresql"
      [] s = "OpenAI" -> "openai"
      [] s = "HubSpot" -> "hubspot"
      [] s = "LinkedIn" -> "linkedin"
      [] s = "API" -> "api"
      [] s = "AI" -> "ai"
      [] s = "Slack" -> "slack"
      [] s = "Orders" -> "orders"
      [] s = "HubSpot CRM" -> "hubspot crm"
      [] s = "Stripe Payments" -> "stripe payments"
      [] s = "Database" -> "database"
      [] OTHER -> s

\* A Map: its keys in insertion order and the array stored under each key.
\* pushes is the sequence of <<key, value>> pairs in the order in which
\*     if (!map.has(k)) map.set(k, []);  map.get(k).push(v)
\* ran: a key is inserted at its first push, its array holds its values in
\* push order.
MapOfPushes(pushes) ==
    LET n == Len(pushes)
        first == {i \in 1..n : \A j \in 1..(i - 1) : pushes[j][1] # pushes[i][1]}
        firsts == SelectSeq([i \in 1..n |-> i], LAMBDA i : i \in first)
        under(k) == SelectSeq(pushes, LAMBDA p : p[1] = k)
    IN  [keys |-> [i \in 1..Len(firsts) |-> pushes[firsts[i]][1]],
         at |-> [k \in {pushes[i][1] : i \in 1..n} |->
                    [i \in 1..Len(under(k)) |-> under(k)[i][2]]]]

\* Map.prototype.get(k) || []
MapGetOrEmpty(map, k) == IF k \in Range(map.keys) THEN map.at[k] ELSE <<>>

\* The pushes of one forEach pass of buildIndexes over this.workflows
CategoryPushes(ws) == [i \in 1..Len(ws) |-> <<WorkflowData[ws[i]].category, ws[i]>>]

RECURSIVE TagPushes(_)
TagPushes(ws) ==
    IF ws = <<>> THEN <<>>
    ELSE LET tags == WorkflowData[Head(ws)].tags
         IN  [i \in 1..Len(tags) |-> <<tags[i], Head(ws)>>] \o TagPushes(Tail(ws))

RECURSIVE IntegrationPushes(_)
IntegrationPushes(ws) ==
    IF ws = <<>> THEN <<>>
    ELSE LET services == WorkflowData[Head(ws)].services
         IN  [i \in 1..Len(services) |-> <<services[i], Head(ws)>>] \o IntegrationPushes(Tail(ws))

\* buildIndexes
BuildCategoryIndex(ws) == MapOfPushes(CategoryPushes(ws))

BuildTagIndex(ws) == MapOfPushes(TagPushes(ws))

BuildIntegrationIndex(ws) == MapOfPushes(IntegrationPushes(ws))

-----------------------------------------------------------------------------
(* WorkflowKnowledgeBase: the query operations                              *)

\* An optional argument or field that is not given
Undefined == "undefined"

\* Bounds on the arguments of the queries
MaxLimit == 3

MaxReqTexts == 2

\* query.toLowerCase().split(' '): a query is kept as the sequence of the
\* pieces between its space characters; the empty query is the empty sequence.
\* A piece is empty where two spaces meet, and a tab inside a piece is part of
\* the piece.
Queries == {<<>>, <<"ai">>, <<"automation">>, <<"order">>, <<"data">>,
            <<"ai", "lead">>, <<"hello">>, <<"AI", "lead">>, <<"order", "hello">>,
            <<"ai", "", "lead">>, <<"ai\tlead">>}

FilterSets == [category : {Undefined, "crm-sales", "e-commerce", "hr-recruiting"},
               difficulty : {Undefined, "advanced"},
               tags : {<<>>, <<"automation">>},
               integration : {Undefined, "OpenAI"}]

NoFilters == [category |-> Undefined, difficulty |-> Undefined,
              tags |-> <<>>, integration |-> Undefined]

RequirementWords == {"ai", "automation", "lead", "hello", "Orders"}

RequirementTexts ==
    UNION {[1..n -> RequirementWords] : n \in 0..MaxReqTexts}

Limits == (0..MaxLimit) \cup {10}

CategoryArgs == {"e-commerce", "crm-sales", "analytics-reporting", "hr-recruiting"}

IdArgs == TemplateIds \cup {"no-such-workflow"}

\* name.includes(term) || description.includes(term) || tags.some(tag => tag.includes(term))
\* Every string includes the empty string; no text of a template holds a tab.
TermMatches(id, term) ==
    \/ term = ""
    \/ term \in WorkflowData[id].nameHas
    \/ term \in WorkflowData[id].descHas
    \/ term \in WorkflowData[id].tagHas

\* The chain of filter() calls of searchWorkflows, before the sort
SearchFiltered(ws, query, filters) ==
    LET byText == IF query # <<>>
                  THEN {id \in TemplateIds :
                          \A i \in 1..Len(query) : TermMatches(id, ToLower(query[i]))}
                  ELSE TemplateIds
        byCategory == IF filters.category # Undefined
                      THEN {id \in TemplateIds : WorkflowData[id].category = filters.category}
                      ELSE TemplateIds
        byDifficulty == IF filters.difficulty # Undefined
                        THEN {id \in TemplateIds : WorkflowData[id].difficulty = filters.difficulty}
                        ELSE TemplateIds
        byTags == IF Len(filters.tags) > 0
                  THEN {id \in TemplateIds :
                          \E i \in 1..Len(filters.tags) :
                              filters.tags[i] \in Range(WorkflowData[id].tags)}
                  ELSE TemplateIds
        byIntegration == IF filters.integration # Undefined
                         THEN {id \in TemplateIds :
                                 \E i \in 1..Len(WorkflowData[id].services) :
                                     ToLower(WorkflowData[id].services[i]) = ToLower(filters.integration)}
                         ELSE TemplateIds
    IN  FilterSeq(FilterSeq(FilterSeq(FilterSeq(FilterSeq(ws, byText), byCategory),
                                      byDifficulty), byTags), byIntegration)

\* No filter() ran, so `results` is still the array this.workflows itself
SearchAliasesStore(query, filters) ==
    /\ query = <<>>
    /\ filters.category = Undefined
    /\ filters.difficulty = Undefined
    /\ Len(filters.tags) = 0
    /\ filters.integration = Undefined

\* What searchWorkflows returns: results.sort(by popularity, descending)
SearchWorkflows(ws, query, filters) ==
    SortDesc(SearchFiltered(ws, query, filters), Popularity)

\* What searchWorkflows leaves in this.workflows: sort() works in place
SearchWorkflowsStore(ws, query, filters) ==
    IF SearchAliasesStore(query, filters) THEN SortDesc(ws, Popularity) ELSE ws

\* A lookup that trusts the position the template was loaded at
GetWorkflowByIdAtLoadPosition(ws, id) ==
    LET at == {i \in 1..Len(LoadOrder) : LoadOrder[i] = id}
    IN  IF at = {} THEN <<>> ELSE <<ws[CHOOSE i \in at : TRUE]>>

\* this.workflows.find(w => w.id === id); undefined is the empty result
GetWorkflowById(ws, id) ==
    LET hits == {i \in 1..Len(ws) : ws[i] = id}
    IN  IF hits = {} THEN <<>>
        ELSE <<ws[CHOOSE i \in hits : \A j \in hits : i <= j]>>

GetWorkflowsByCategory(cats, category) == MapGetOrEmpty(cats, category)

\* this.workflows.sort(...) sorts the store's own array, slice copies
GetPopularWorkflowsStore(ws) == SortDesc(ws, Popularity)

\* A getPopularWorkflows that cuts the array before it sorts it
GetPopularWorkflowsSliceFirst(ws, limit) == SortDesc(Slice0(ws, limit), Popularity)

GetPopularWorkflows(ws, limit) == Slice0(GetPopularWorkflowsStore(ws), limit)

\* The reduce() of getRecommendedWorkflows over the lower-cased requirement texts
RECURSIVE Score(_, _)
Score(id, keywords) ==
    IF keywords = <<>> THEN 0
    ELSE LET keyword == keywords[Len(keywords)]
         IN  Score(id, SubSeq(keywords, 1, Len(keywords) - 1))
             + (IF keyword \in WorkflowData[id].nameHas THEN 3 ELSE 0)
             + (IF keyword \in WorkflowData[id].descHas THEN 2 ELSE 0)
             + (IF keyword \in WorkflowData[id].tagHas THEN 1 ELSE 0)

GetRecommendedWorkflows(ws, requirements) ==
    LET keywords == [i \in 1..Len(requirements) |-> ToLower(requirements[i])]
        score == [id \in TemplateIds |-> Score(id, keywords)]
        scored == FilterSeq(ws, {id \in TemplateIds : score[id] > 0})
    IN  Slice0(SortDesc(scored, score), 10)

GetAllCategories(cats) == cats.keys

RECURSIVE SumPopularity(_)
SumPopularity(ws) ==
    IF ws = <<>> THEN 0 ELSE Popularity[Head(ws)] + SumPopularity(Tail(ws))

\* avgPopularity is kept as the pair <<sum, count>> of the division
GetWorkflowStats(ws, cats, tags, ints) ==
    [total |-> Len(ws),
     categories |-> Len(cats.keys),
     tags |-> Len(tags.keys),
     integrations |-> Len(ints.keys),
     avgPopularity |-> <<SumPopularity(ws), Len(ws)>>]

NoCall == [op |-> "none", query |-> <<>>, filters |-> NoFilters, id |-> Undefined,
           category |-> Undefined, limit |-> 0, requirements |-> <<>>]

\* new WorkflowKnowledgeBase(): initializeWorkflows(), then buildIndexes()
KBInit ==
    /\ workflows = LoadOrder
    /\ categories = BuildCategoryIndex(LoadOrder)
    /\ tagIndex = BuildTagIndex(LoadOrder)
    /\ integrationIndex = BuildIntegrationIndex(LoadOrder)
    /\ kbCall = NoCall
    /\ kbResult = <<>>

KBSearch(query, filters) ==
    /\ kbCall' = [NoCall EXCEPT !.op = "searchWorkflows", !.query = query, !.filters = filters]
    /\ kbResult' = SearchWorkflows(workflows, query, filters)
    /\ workflows' = SearchWorkflowsStore(workflows, query, filters)
    /\ UNCHANGED <<categories, tagIndex, integrationIndex>>
    /\ UNCHANGED <<agentVars, intentVars, builderVars, generatorVars>>

KBGetById(id) ==
    /\ kbCall' = [NoCall EXCEPT !.op = "getWorkflowById", !.id = id]
    /\ kbResult' = GetWorkflowById(workflows, id)
    /\ UNCHANGED <<workflows, categories, tagIndex, integrationIndex>>
    /\ UNCHANGED <<agentVars, intentVars, builderVars, generatorVars>>

KBGetByCategory(category) ==
    /\ kbCall' = [NoCall EXCEPT !.op = "getWorkflowsByCategory", !.category = category]
    /\ kbResult' = GetWorkflowsByCategory(categories, category)
    /\ UNCHANGED <<workflows, categories, tagIndex, integrationIndex>>
    /\ UNCHANGED <<agentVars, intentVars, builderVars, generatorVars>>

KBGetPopular(limit) ==
    /\ kbCall' = [NoCall EXCEPT !.op = "getPopularWorkflows", !.limit = limit]
    /\ kbResult' = GetPopularWorkflows(workflows, limit)
    /\ workflows' = GetPopularWorkflowsStore(workflows)
    /\ UNCHANGED <<categories, tagIndex, integrationIndex>>
    /\ UNCHANGED <<agentVars, intentVars, builderVars, generatorVars>>

KBGetRecommended(requirements) ==
    /\ kbCall' = [NoCall EXCEPT !.op = "getRecommendedWorkflows", !.requirements = requirements]
    /\ kbResult' = GetRecommendedWorkflows(workflows, requirements)
    /\ UNCHANGED <<workflows, categories, tagIndex, integrationIndex>>
    /\ UNCHANGED <<agentVars, intentVars, builderVars, generatorVars>>

KBGetAllCategories ==
    /\ kbCall' = [NoCall EXCEPT !.op = "getAllCategories"]
    /\ kbResult' = GetAllCategories(categories)
    /\ UNCHANGED <<workflows, categories, tagIndex, integrationIndex>>
    /\ UNCHANGED <<agentVars, intentVars, builderVars, generatorVars>>

KBGetStats ==
    /\ kbCall' = [NoCall EXCEPT !.op = "getWorkflowStats"]
    /\ kbResult' = GetWorkflowStats(workflows, categories, tagIndex, integrationIndex)
    /\ UNCHANGED <<workflows, categories, tagIndex, integrationIndex>>
    /\ UNCHANGED <<agentVars, intentVars, builderVars, generatorVars>>

-----------------------------------------------------------------------------
(* AIEngineerAgent: messages, intent analysis, requirement extraction       *)

\* User messages: the words of the message, separated by single spaces
Messages == {<<"hello">>, <<"automate", "Orders">>, <<"sync", "leads">>,
             <<"API", "webhook">>, <<"automation">>}

\* The keywords of analyzeUserIntent / extractRequirements that the lower-cased
\* word includes as a substring
KeywordsIn(word) ==
    CASE word = "leads" -> {"lead", "leads"}
      [] word = "database" -> {"database", "data"}
      [] word = "upload" -> {"load"}
      [] word \in {"automate", "automation", "orders", "api", "webhook",
                   "sync", "scale", "data", "lead", "shop", "customers",
                   "marketing", "support"} -> {word}
      [] OTHER -> {}

\* The keywords that hold a space, as the two words around it
TwoWordKeywords == {"online store", "social media", "customer service"}

WordsOf(keyword) ==
    CASE keyword = "online store" -> <<"online", "store">>
      [] keyword = "social media" -> <<"social", "media">>
      [] OTHER -> <<"customer", "service">>

\* lowerMessage.includes(keyword).  A keyword without a space is included iff
\* one word includes it.  A keyword with a space is included iff a word ends
\* in its first word and the next word begins with its second; among the
\* words in use only the keyword's own words do.
Includes(message, keyword) ==
    IF keyword \in TwoWordKeywords
    THEN \E i \in 1..(Len(message) - 1) :
             /\ ToLower(message[i]) = WordsOf(keyword)[1]
             /\ ToLower(message[i + 1]) = WordsOf(keyword)[2]
    ELSE \E i \in 1..Len(message) : keyword \in KeywordsIn(ToLower(message[i]))

\* containsKeywords: keywords.some(keyword => text.includes(keyword))
containsKeywords(message, keywords) ==
    \E k \in keywords : Includes(message, k)

\* lowerMessage.split(' ').filter(word => word.length > 3)
LongWords(message) ==
    LET lower == [i \in 1..Len(message) |-> ToLower(message[i])]
        long == {w \in Range(lower) : w \notin {"api", "ai"}}
    IN  SelectSeq(lower, LAMBDA w : w \in long)

\* An analyzeUserIntent that looks for the technical keywords first
analyzeUserIntentTechnicalFirst(message) ==
    IF containsKeywords(message, {"api", "database", "integration", "webhook", "data"})
    THEN [type |-> "technical-requirement", category |-> "technical-specs",
          confidence |-> 70, keywords |-> <<"technical">>]
    ELSE IF containsKeywords(message, {"ecommerce", "e-commerce", "online store", "shop", "orders", "products"})
    THEN [type |-> "business-process", category |-> "business-process",
          confidence |-> 90, keywords |-> <<"ecommerce">>]
    ELSE IF containsKeywords(message, {"lead", "leads", "crm", "sales", "prospects", "customers"})
    THEN [type |-> "business-process", category |-> "business-process",
          confidence |-> 85, keywords |-> <<"crm", "sales">>]
    ELSE IF containsKeywords(message, {"marketing", "email", "social media", "content", "campaigns"})
    THEN [type |-> "business-process", category |-> "business-process",
          confidence |-> 80, keywords |-> <<"marketing">>]
    ELSE IF containsKeywords(message, {"support", "tickets", "customer service", "helpdesk"})
    THEN [type |-> "business-process", category |-> "business-process",
          confidence |-> 80, keywords |-> <<"support">>]
    ELSE IF containsKeywords(message, {"scale", "volume", "performance", "load", "capacity"})
    THEN [type |-> "scale-requirement", category |-> "scale-volume",
          confidence |-> 70, keywords |-> <<"scale">>]
    ELSE [type |-> "general-inquiry", category |-> Undefined,
          confidence |-> 50, keywords |-> LongWords(message)]

\* Confidence is kept in hundredths
analyzeUserIntent(message) ==
    IF containsKeywords(message, {"ecommerce", "e-commerce", "online store", "shop", "orders", "products"})
    THEN [type |-> "business-process", category |-> "business-process",
          confidence |-> 90, keywords |-> <<"ecommerce">>]
    ELSE IF containsKeywords(message, {"lead", "leads", "crm", "sales", "prospects", "customers"})
    THEN [type |-> "business-process", category |-> "business-process",
          confidence |-> 85, keywords |-> <<"crm", "sales">>]
    ELSE IF containsKeywords(message, {"marketing", "email", "social media", "content", "campaigns"})
    THEN [type |-> "business-process", category |-> "business-process",
          confidence |-> 80, keywords |-> <<"marketing">>]
    ELSE IF containsKeywords(message, {"support", "tickets", "customer service", "helpdesk"})
    THEN [type |-> "business-process", category |-> "business-process",
          confidence |-> 80, keywords |-> <<"support">>]
    ELSE IF containsKeywords(message, {"api", "database", "integration", "webhook", "data"})
    THEN [type |-> "technical-requirement", category |-> "technical-specs",
          confidence |-> 70, keywords |-> <<"technical">>]
    ELSE IF containsKeywords(message, {"scale", "volume", "performance", "load", "capacity"})
    THEN [type |-> "scale-requirement", category |-> "scale-volume",
          confidence |-> 70, keywords |-> <<"scale">>]
    ELSE [type |-> "general-inquiry", category |-> Undefined,
          confidence |-> 50, keywords |-> LongWords(message)]

integrationKeywords == <<"integrate", "connect", "sync", "api", "webhook">>

\* message.match(/(automate|automation).{0,100}/i)[0]: the message from the
\* first word that holds the match on (messages are shorter than 100 characters)
ProcessMatch(message) ==
    LET at == {i \in 1..Len(message) :
                 KeywordsIn(ToLower(message[i])) \cap {"automate", "automation"} # {}}
        first == CHOOSE i \in at : \A j \in at : i <= j
    IN  SubSeq(message, first, Len(message))

\* The records of ProjectRequirement; the random id is left out
RECURSIVE IntegrationRequirements(_, _)
IntegrationRequirements(message, keywords) ==
    IF keywords = <<>> THEN <<>>
    ELSE (IF Includes(message, Head(keywords))
          THEN <<[category |-> "integrations", question |-> Head(keywords),
                  answer |-> message, priority |-> "high"]>>
          ELSE <<>>)
         \o IntegrationRequirements(message, Tail(keywords))

\* An extractRequirements that files an api or webhook match under
\* technical-specs
extractRequirementsTechnicalSpecs(message) ==
    (IF Includes(message, "automate") \/ Includes(message, "automation")
     THEN <<[category |-> "business-process", question |-> "process",
             answer |-> ProcessMatch(message), priority |-> "critical"]>>
     ELSE <<>>)
    \o [i \in 1..Len(IntegrationRequirements(message, integrationKeywords)) |->
           LET r == IntegrationRequirements(message, integrationKeywords)[i]
           IN  IF r.question \in {"api", "webhook"}
               THEN [r EXCEPT !.category = "technical-specs"] ELSE r]

extractRequirements(message) ==
    (IF Includes(message, "automate") \/ Includes(message, "automation")
     THEN <<[category |-> "business-process", question |-> "process",
             answer |-> ProcessMatch(message), priority |-> "critical"]>>
     ELSE <<>>)
    \o IntegrationRequirements(message, integrationKeywords)

criticalCategories == <<"business-process", "technical-specs", "integrations", "scale-volume">>

RequirementCategories == {"business-process", "technical-specs", "integrations", "scale-volume",
                          "security-compliance", "user-experience", "budget-timeline",
                          "success-metrics"}

\* A completeness that counts records of critical categories, not categories
assessRequirementsCompletenessByCount(requirements) ==
    LET critical == {i \in 1..Len(requirements) :
                        requirements[i].category \in Range(criticalCategories)}
    IN  (Cardinality(critical) * 100) \div Len(criticalCategories)

\* assessRequirementsCompleteness, in percent:
\* criticalCategories.filter(cat => coveredCategories.has(cat)).length / criticalCategories.length
assessRequirementsCompleteness(requirements) ==
    LET coveredCategories == {requirements[i].category : i \in 1..Len(requirements)}
    IN  (Len(FilterSeq(criticalCategories, coveredCategories)) * 100) \div Len(criticalCategories)

\* getCategoryFromKeywords: the first keyword that the categoryMap knows
getCategoryFromKeywords(keywords) ==
    LET categoryMap == [k \in {"ecommerce", "crm", "sales", "marketing", "support", "technical"} |->
                          CASE k = "ecommerce" -> "e-commerce"
                            [] k \in {"crm", "sales"} -> "crm-sales"
                            [] k = "marketing" -> "marketing-automation"
                            [] k = "support" -> "customer-support"
                            [] OTHER -> "data-processing"]
        known == {i \in 1..Len(keywords) : keywords[i] \in DOMAIN categoryMap}
    IN  IF known = {} THEN Undefined
        ELSE categoryMap[keywords[CHOOSE i \in known : \A j \in known : i <= j]]

-----------------------------------------------------------------------------
(* AIEngineerAgent: the conversation context and processMessage             *)

Phases == {"discovery", "requirements", "blueprint", "implementation", "optimization"}

\* Bounds on the lengths of the arrays
MaxReqs == 4

MaxHist == 2

\* Bound on the number of resetContext calls
MaxResets == 1

\* Array references: the arrays the agent creates itself (constructor,
\* resetContext) and the arrays of the context objects callers pass in
AgentRef == "agent"

Conversations == {"c1", "c2"}

Refs == {AgentRef} \cup Conversations

\* A requirement record a caller supplies in its own context object
CallerRequirement(category) ==
    [category |-> category, question |-> "caller", answer |-> <<>>, priority |-> "medium"]

\* The requirement arrays a caller may hold when the agent is constructed
CallerRequirementLists ==
    {<<>>,
     <<CallerRequirement("technical-specs"), CallerRequirement("scale-volume")>>}

\* The context argument of processMessage: Partial<ConversationContext>.
\* An absent field is Undefined; no argument at all is NoContext.
ContextArgs == [phase : Phases \cup {Undefined},
                requirements : {"c1", Undefined},
                chatHistory : {"c1", Undefined}]

NoContext == [phase |-> Undefined, requirements |-> Undefined, chatHistory |-> Undefined]

\* this.context = { ...this.context, ...context }
MergeContext(c, arg) ==
    [phase |-> IF arg.phase # Undefined THEN arg.phase ELSE c.phase,
     requirements |-> IF arg.requirements # Undefined THEN arg.requirements ELSE c.requirements,
     chatHistory |-> IF arg.chatHistory # Undefined THEN arg.chatHistory ELSE c.chatHistory]

\* A discovery step that takes every recognised intent for a business process
generateDiscoveryResponseAnyIntent(ws, intent, userMessage) ==
    IF intent.type # "general-inquiry"
    THEN LET found == SearchWorkflows(ws, userMessage,
                         [NoFilters EXCEPT !.category = getCategoryFromKeywords(intent.keywords)])
         IN  [phase |-> "requirements",
              response |-> IF Len(found) > 0 THEN "workflow-patterns" ELSE "greeting"]
    ELSE [phase |-> "discovery", response |-> "greeting"]

\* generateDiscoveryResponse: the phase it leaves and the reply it returns
generateDiscoveryResponse(ws, intent, userMessage) ==
    IF intent.type = "business-process"
    THEN LET found == SearchWorkflows(ws, userMessage,
                         [NoFilters EXCEPT !.category = getCategoryFromKeywords(intent.keywords)])
         IN  [phase |-> "requirements",
              response |-> IF Len(found) > 0 THEN "workflow-patterns" ELSE "greeting"]
    ELSE [phase |-> "discovery", response |-> "greeting"]

\* A requirements step that starts over while the requirements are incomplete
generateRequirementsResponseRestart(requirements) ==
    IF assessRequirementsCompleteness(requirements) > 80
    THEN [phase |-> "blueprint", response |-> "blueprint-ready"]
    ELSE [phase |-> "discovery", response |-> "next-questions"]

\* A requirements step that is content with three of the four categories
generateRequirementsResponseLowThreshold(requirements) ==
    IF assessRequirementsCompleteness(requirements) > 70
    THEN [phase |-> "blueprint", response |-> "blueprint-ready"]
    ELSE [phase |-> "requirements", response |-> "next-questions"]

\* generateRequirementsResponse
generateRequirementsResponse(requirements) ==
    IF assessRequirementsCompleteness(requirements) > 80
    THEN [phase |-> "blueprint", response |-> "blueprint-ready"]
    ELSE [phase |-> "requirements", response |-> "next-questions"]

\* generateResponse: the switch on this.context.phase
generateResponse(ws, phase, requirements, intent, userMessage) ==
    CASE phase = "discovery" -> generateDiscoveryResponse(ws, intent, userMessage)
      [] phase = "requirements" -> generateRequirementsResponse(requirements)
      [] phase = "blueprint" -> [phase |-> phase, response |-> "blueprint"]
      [] phase = "implementation" -> [phase |-> phase, response |-> "implementation"]
      [] OTHER -> [phase |-> phase, response |-> "default"]

\* unshift instead of push: the extracted requirements go in front
PushRequirementsFront(list, extracted) == extracted \o list

\* this.context.requirements.push(...requirements)
PushRequirements(list, extracted) == list \o extracted

\* The part of processMessage that runs before its await: merge the context
\* argument, push the user message, analyse, push the extracted requirements
\* and run generateResponse.  The result is the agent state it leaves and the
\* call's locals.
ProcessMessageStart(ws, c, reqs, hist, userMessage, arg) ==
    LET merged == MergeContext(c, arg)
        hist1 == [hist EXCEPT ![merged.chatHistory] =
                     Append(@, [role |-> "user", content |-> userMessage, type |-> Undefined])]
        intent == analyzeUserIntent(userMessage)
        reqs1 == [reqs EXCEPT ![merged.requirements] =
                     PushRequirements(@, extractRequirements(userMessage))]
        out == generateResponse(ws, merged.phase, reqs1[merged.requirements], intent, userMessage)
    IN  [ctx |-> [merged EXCEPT !.phase = out.phase],
         reqHeap |-> reqs1,
         histHeap |-> hist1,
         intent |-> intent,
         response |-> out.response]

\* The part of processMessage that runs after its await: push the reply onto
\* the chatHistory of whatever this.context is by then
ProcessMessageResume(c, hist, intent, response) ==
    [hist EXCEPT ![c.chatHistory] =
        Append(@, [role |-> "assistant", content |-> <<response>>, type |-> intent.type])]

\* processMessage may run only while the arrays it pushes to stay within bounds
WithinBounds(c, reqs, hist, userMessage, arg, maxHist, maxReqs) ==
    LET merged == MergeContext(c, arg)
    IN  /\ Len(hist[merged.chatHistory]) + 2 <= maxHist
        /\ Len(reqs[merged.requirements]) + Len(extractRequirements(userMessage)) <= maxReqs

\* new AIEngineerAgent(), and the arrays the callers hold at that time
AgentInit ==
    /\ ctx = [phase |-> "discovery", requirements |-> AgentRef, chatHistory |-> AgentRef]
    /\ \E list \in CallerRequirementLists :
           reqHeap = [r \in Refs |-> IF r = "c1" THEN list ELSE <<>>]
    /\ histHeap = [r \in Refs |-> <<>>]
    /\ pending = <<>>
    /\ convPhase = [c \in Conversations |-> "discovery"]
    /\ resets = 0

\* No call of analyzeUserIntent is under way
IntentIdle ==
    /\ intentArgs = <<>>
    /\ intentResult = <<>>

\* new N8nWorkflowBuilder(): the field initialisers, then resetCounters()
BuilderNew == [nodeIdCounter |-> 1, nodePositionX |-> 300, nodePositionY |-> 300]

BuilderIdle ==
    /\ builder = BuilderNew
    /\ builderArgs = <<>>
    /\ builderResult = <<>>
    /\ builderEarlier = <<>>

\* No method of the blueprint generator has been called
GeneratorIdle ==
    /\ generatorCall = [op |-> "none"]
    /\ generatorResult = <<>>

Init == KBInit /\ AgentInit /\ IntentIdle /\ BuilderIdle /\ GeneratorIdle

\* A whole processMessage call, nothing else running in between
ProcessMessageBounded(userMessage, arg, maxHist, maxReqs) ==
    /\ WithinBounds(ctx, reqHeap, histHeap, userMessage, arg, maxHist, maxReqs)
    /\ LET s == ProcessMessageStart(workflows, ctx, reqHeap, histHeap, userMessage, arg)
       IN  /\ ctx' = s.ctx
           /\ reqHeap' = s.reqHeap
           /\ histHeap' = ProcessMessageResume(s.ctx, s.histHeap, s.intent, s.response)
           /\ workflows' = SearchWorkflowsStore(workflows, userMessage, NoFilters)
    /\ UNCHANGED <<categories, tagIndex, integrationIndex, kbCall, kbResult,
                   pending, convPhase, resets>>
    /\ UNCHANGED <<intentVars, builderVars, generatorVars>>

ProcessMessage(userMessage, arg) ==
    ProcessMessageBounded(userMessage, arg, MaxHist, MaxReqs)

\* resetContext: a fresh context object with fresh, empty arrays
ResetContext ==
    /\ resets < MaxResets
    /\ resets' = resets + 1
    /\ ctx' = [phase |-> "discovery", requirements |-> AgentRef, chatHistory |-> AgentRef]
    /\ reqHeap' = [reqHeap EXCEPT ![AgentRef] = <<>>]
    /\ histHeap' = [histHeap EXCEPT ![AgentRef] = <<>>]
    /\ UNCHANGED <<kbVars, pending, convPhase>>
    /\ UNCHANGED <<intentVars, builderVars, generatorVars>>

\* Sequential use of one agent: any public operation, any context argument
Next ==
    \/ \E m \in Messages, a \in ContextArgs : ProcessMessage(m, a)
    \/ ResetContext

Spec == Init /\ [][Next]_vars

-----------------------------------------------------------------------------
(* A conversation of user messages only: processMessage(userMessage)        *)

\* Bound on the number of messages of the conversation
MaxTurns == 4

UserSays(userMessage) ==
    ProcessMessageBounded(userMessage, NoContext, 2 * MaxTurns, 2 * MaxTurns)

NoContextNext == \E m \in Messages : UserSays(m)

NoContextSpec == Init /\ [][NoContextNext]_vars

\* resetContext between conversations; the agent is as new afterwards
StartOver ==
    /\ ctx' = [phase |-> "discovery", requirements |-> AgentRef, chatHistory |-> AgentRef]
    /\ reqHeap' = [reqHeap EXCEPT ![AgentRef] = <<>>]
    /\ histHeap' = [histHeap EXCEPT ![AgentRef] = <<>>]
    /\ UNCHANGED <<kbVars, pending, convPhase, resets>>
    /\ UNCHANGED <<intentVars, builderVars, generatorVars>>

FairNoContextNext == NoContextNext \/ StartOver

\* The user keeps talking and keeps starting new conversations
FairNoContextSpec ==
    /\ Init
    /\ [][FairNoContextNext]_vars
    /\ SF_vars(NoContextNext)
    /\ WF_vars(StartOver)

-----------------------------------------------------------------------------
(* Overlapping calls on the shared agent (the exported singleton aiAgent)   *)

\* The context object the caller of conversation c passes: its own arrays and
\* the phase its conversation has reached
ConversationContext(c) ==
    [phase |-> convPhase[c], requirements |-> c, chatHistory |-> c]

\* processMessage(userMessage, context of c) runs up to its await and suspends
CallStart(c, userMessage) ==
    /\ \A i \in 1..Len(pending) : pending[i].conv # c
    /\ WithinBounds(ctx, reqHeap, histHeap, userMessage, ConversationContext(c), MaxHist, MaxReqs)
    /\ LET s == ProcessMessageStart(workflows, ctx, reqHeap, histHeap, userMessage,
                                    ConversationContext(c))
       IN  /\ ctx' = s.ctx
           /\ reqHeap' = s.reqHeap
           /\ histHeap' = s.histHeap
           /\ pending' = Append(pending, [conv |-> c, intent |-> s.intent, response |-> s.response])
           /\ convPhase' = [convPhase EXCEPT ![c] = s.ctx.phase]
           /\ workflows' = SearchWorkflowsStore(workflows, userMessage, NoFilters)
    /\ UNCHANGED <<categories, tagIndex, integrationIndex, kbCall, kbResult, resets>>
    /\ UNCHANGED <<intentVars, builderVars, generatorVars>>

\* The oldest suspended call resumes after its await and returns
CallResume ==
    /\ pending # <<>>
    /\ histHeap' = ProcessMessageResume(ctx, histHeap, Head(pending).intent, Head(pending).response)
    /\ pending' = Tail(pending)
    /\ UNCHANGED <<kbVars, ctx, reqHeap, convPhase, resets>>
    /\ UNCHANGED <<intentVars, builderVars, generatorVars>>

ConcNext ==
    \/ \E c \in Conversations, m \in Messages : CallStart(c, m)
    \/ CallResume

ConcSpec == Init /\ [][ConcNext]_vars

-----------------------------------------------------------------------------
(* N8nWorkflowBuilder: nodes, connections and the three graphs              *)

nodeSpacingX == 400

\* resetCounters
resetCounters(b) == [b EXCEPT !.nodeIdCounter = 1, !.nodePositionX = 300, !.nodePositionY = 300]

\* advancePosition
advancePosition(b) == [b EXCEPT !.nodePositionX = @ + nodeSpacingX]

\* A node literal { id: this.generateNodeId(), name, type, position: [x, y + dy] }
\* whose parameters call generateNodeId() moreIds more times.  The id node_k is
\* kept as k.  Returns the node and the builder fields after it.
NewNode(b, name, type, dy, moreIds) ==
    [node |-> [id |-> b.nodeIdCounter, name |-> name, type |-> type,
               position |-> <<b.nodePositionX, b.nodePositionY + dy>>],
     b |-> [b EXCEPT !.nodeIdCounter = @ + 1 + moreIds]]

\* const connections = {}
NoConnections == [k \in {} |-> <<>>]

\* A connectNodes that records the connection under its target
connectNodesReversed(connections, fromNode, toNode) ==
    [k \in DOMAIN connections \cup {toNode} |->
        IF k = toNode
        THEN (IF toNode \in DOMAIN connections THEN connections[toNode] ELSE <<>>)
             \o << <<[node |-> fromNode, type |-> "main", index |-> 0]>> >>
        ELSE connections[k]]

\* A connectNodes that numbers each pushed port by its place in the array
connectNodesIndexed(connections, fromNode, toNode) ==
    [k \in DOMAIN connections \cup {fromNode} |->
        IF k = fromNode
        THEN (IF fromNode \in DOMAIN connections THEN connections[fromNode] ELSE <<>>)
             \o << <<[node |-> toNode, type |-> "main",
                      index |-> IF fromNode \in DOMAIN connections
                                THEN Len(connections[fromNode]) ELSE 0]>> >>
        ELSE connections[k]]

\* connectNodes: connections[fromNode].main.push([{ node: toNode, type: 'main', index: 0 }])
\* connections[name] is kept as the array connections[name].main
connectNodes(connections, fromNode, toNode) ==
    [k \in DOMAIN connections \cup {fromNode} |->
        IF k = fromNode
        THEN (IF fromNode \in DOMAIN connections THEN connections[fromNode] ELSE <<>>)
             \o << <<[node |-> toNode, type |-> "main", index |-> 0]>> >>
        ELSE connections[k]]

\* The words of requirement answers that matter to determineTriggerType, and
\* the trigger keywords each includes once lower-cased
TriggerKeywordsIn(word) ==
    CASE word \in {"api", "webhook", "daily", "email"} -> {word}
      [] OTHER -> {}

\* requirements.map(r => r.answer.toLowerCase()).join(' ') includes some keyword
AnswersInclude(requirements, keywords) ==
    \E i \in 1..Len(requirements) : \E j \in 1..Len(requirements[i].answer) :
        TriggerKeywordsIn(ToLower(requirements[i].answer[j])) \cap keywords # {}

determineTriggerType(requirements) ==
    IF AnswersInclude(requirements, {"webhook", "api", "real-time"}) THEN "webhook"
    ELSE IF AnswersInclude(requirements, {"schedule", "daily", "hourly"}) THEN "schedule"
    ELSE IF AnswersInclude(requirements, {"email", "imap"}) THEN "email"
    ELSE "manual"

createTriggerNode(b, requirements) ==
    LET triggerType == determineTriggerType(requirements)
    IN  CASE triggerType = "webhook" -> NewNode(b, "Webhook Trigger", "n8n-nodes-base.webhook", 0, 0)
          [] triggerType = "schedule" -> NewNode(b, "Schedule Trigger", "n8n-nodes-base.cron", 0, 0)
          [] triggerType = "email" -> NewNode(b, "Email Trigger", "n8n-nodes-base.emailReadImap", 0, 0)
          [] OTHER -> NewNode(b, "Manual Trigger", "n8n-nodes-base.manualTrigger", 0, 0)

createValidationNode(b) == NewNode(b, "Input Validation", "n8n-nodes-base.function", 0, 0)

createAIProcessingNode(b) == NewNode(b, "AI Processing", "n8n-nodes-base.openAi", 0, 0)

\* its three assignments take an id each
createDataProcessingNode(b) == NewNode(b, "Transform Data", "n8n-nodes-base.set", 0, 3)

createGenericProcessingNode(b) == NewNode(b, "Process Data", "n8n-nodes-base.function", 0, 0)

createHttpRequestNode(b) == NewNode(b, "API Integration", "n8n-nodes-base.httpRequest", 0, 0)

createOutputNode(b) == NewNode(b, "Send Notification", "n8n-nodes-base.emailSend", 0, 0)

\* component.name.includes(marker), for the component names in use
ComponentNameIncludes(name, marker) ==
    \/ name \in {"AI Classifier", "AI Decision Engine"} /\ marker = "AI"
    \/ name \in {"Data Transformer", "Data Processing Engine", "Data Storage", "Data Collector"}
         /\ marker = "Data"

\* blueprint.technicalArchitecture?.components || []
ComponentsOf(blueprint) ==
    IF blueprint.hasArchitecture THEN blueprint.components ELSE <<>>

\* blueprint.technicalArchitecture?.integrations || []
IntegrationsOf(blueprint) ==
    IF blueprint.hasArchitecture THEN blueprint.integrations ELSE <<>>

\* The value F gives for value, with value worked out once
Then(value, F(_)) == CHOOSE result \in {F(x) : x \in {value}} : TRUE

\* One round of the forEach of createProcessingNodes: made is the nodes array
\* and the builder fields so far
ProcessingNodeFor(made, component) ==
    LET new == IF ComponentNameIncludes(component.name, "AI") THEN createAIProcessingNode(made.b)
               ELSE IF ComponentNameIncludes(component.name, "Data") THEN createDataProcessingNode(made.b)
               ELSE createGenericProcessingNode(made.b)
    IN  IF component.type = "processor"
        THEN [nodes |-> Append(made.nodes, new.node), b |-> new.b]
        ELSE made

\* The forEach of createProcessingNodes over the components still to visit
RECURSIVE ProcessingNodesFrom(_, _)
ProcessingNodesFrom(components, made) ==
    IF components = <<>> THEN made
    ELSE ProcessingNodesFrom(Tail(components),
             Then(made, LAMBDA m : ProcessingNodeFor(m, Head(components))))

\* The default node, if the forEach made none
ProcessingDefault(made) ==
    LET default == createGenericProcessingNode(made.b)
    IN  IF Len(made.nodes) = 0
        THEN [nodes |-> <<default.node>>, b |-> default.b]
        ELSE made

\* A createProcessingNodes without the default node
createProcessingNodesNoDefault(b, blueprint) ==
    ProcessingNodesFrom(ComponentsOf(blueprint), [nodes |-> <<>>, b |-> b])

createProcessingNodes(b, blueprint) ==
    Then(ProcessingNodesFrom(ComponentsOf(blueprint), [nodes |-> <<>>, b |-> b]),
         LAMBDA made : ProcessingDefault(made))

\* createIntegrationNodeForService: integration.service?.toLowerCase() || ''
\* against the service table, in its order.  service.includes(entry): of the
\* service names in use, the names that include a table entry are listed.
createIntegrationNodeForService(b, integration) ==
    LET service == IF integration.service = Undefined THEN "" ELSE ToLower(integration.service)
    IN  CASE service \in {"hubspot", "hubspot crm"} ->
                 NewNode(b, "HubSpot Integration", "n8n-nodes-base.hubspot", 0, 0)
          [] service = "salesforce" -> NewNode(b, "Salesforce Integration", "n8n-nodes-base.salesforce", 0, 0)
          [] service \in {"stripe", "stripe payments"} ->
                 NewNode(b, "Stripe Integration", "n8n-nodes-base.stripe", 0, 0)
          [] service = "database" -> NewNode(b, "Database Insert", "n8n-nodes-base.postgres", 0, 0)
          [] OTHER -> createHttpRequestNode(b)

\* One round of the forEach of createIntegrationNodes
IntegrationNodeFor(made, integration) ==
    LET new == createIntegrationNodeForService(made.b, integration)
    IN  [nodes |-> Append(made.nodes, new.node), b |-> new.b]

\* The forEach of createIntegrationNodes over the integrations still to visit
RECURSIVE IntegrationNodesFrom(_, _)
IntegrationNodesFrom(integrations, made) ==
    IF integrations = <<>> THEN made
    ELSE IntegrationNodesFrom(Tail(integrations),
             Then(made, LAMBDA m : IntegrationNodeFor(m, Head(integrations))))

\* The default node, if the forEach made none
IntegrationDefault(made) ==
    LET default == createHttpRequestNode(made.b)
    IN  IF Len(made.nodes) = 0
        THEN [nodes |-> <<default.node>>, b |-> default.b]
        ELSE made

createIntegrationNodes(b, blueprint) ==
    Then(IntegrationNodesFrom(IntegrationsOf(blueprint), [nodes |-> <<>>, b |-> b]),
         LAMBDA made : IntegrationDefault(made))

createErrorHandlingNodes(b) ==
    LET handler == NewNode(b, "Error Handler", "n8n-nodes-base.function", 300, 0)
        notification == NewNode(handler.b, "Error Notification", "n8n-nodes-base.emailSend", 500, 0)
    IN  [nodes |-> <<handler.node, notification.node>>, b |-> notification.b]

\* An addErrorHandlingConnections that also wires the output node to the handler
addErrorHandlingConnectionsFromOutput(connections, errorNodes) ==
    connectNodes(connectNodes(connections, "Send Notification", "Error Handler"),
                 "Error Handler", "Error Notification")

\* addErrorHandlingConnections: errorNodes.find(...) finds both nodes
addErrorHandlingConnections(connections, errorNodes) ==
    IF /\ \E i \in 1..Len(errorNodes) : errorNodes[i].name = "Error Handler"
       /\ \E i \in 1..Len(errorNodes) : errorNodes[i].name = "Error Notification"
    THEN connectNodes(connections, "Error Handler", "Error Notification")
    ELSE connections

\* A first step that goes on from the counter and the cursor as they stand
MainTriggerContinuing(b0, requirements) ==
    LET trigger == createTriggerNode(b0, requirements)
    IN  [nodes |-> <<trigger.node>>, connections |-> NoConnections,
         previousNodeName |-> trigger.node.name, b |-> advancePosition(trigger.b)]

\* The graph under construction: nodes, connections, previousNodeName and the
\* builder fields.  Step 1 of buildMainWorkflow: resetCounters, the trigger node
MainTrigger(b0, requirements) ==
    LET trigger == createTriggerNode(resetCounters(b0), requirements)
    IN  [nodes |-> <<trigger.node>>, connections |-> NoConnections,
         previousNodeName |-> trigger.node.name, b |-> advancePosition(trigger.b)]

\* Step 2: the validation node, if securityLevel is not basic
MainValidation(g, options) ==
    LET validation == createValidationNode(g.b)
    IN  IF options.securityLevel # "basic"
        THEN [nodes |-> Append(g.nodes, validation.node),
              connections |-> connectNodes(g.connections, g.previousNodeName,
                                           validation.node.name),
              previousNodeName |-> validation.node.name,
              b |-> advancePosition(validation.b)]
        ELSE g

\* Step 3, one round of the forEach: push, connect from the previous node,
\* make the node the previous one, advance
MainProcessingNode(g, node) ==
    [nodes |-> Append(g.nodes, node),
     connections |-> connectNodes(g.connections, g.previousNodeName, node.name),
     previousNodeName |-> node.name,
     b |-> advancePosition(g.b)]

RECURSIVE AppendProcessingNodes(_, _)
AppendProcessingNodes(newNodes, g) ==
    IF newNodes = <<>> THEN g
    ELSE AppendProcessingNodes(Tail(newNodes),
             Then(g, LAMBDA x : MainProcessingNode(x, Head(newNodes))))

\* Step 3: the processing nodes are all made first, then appended
MainProcessing(g, blueprint) ==
    Then(createProcessingNodes(g.b, blueprint),
         LAMBDA made : AppendProcessingNodes(made.nodes, [g EXCEPT !.b = made.b]))

\* Step 4, one round of the forEach: push, connect from the previous node,
\* advance; previousNodeName is not assigned
MainIntegrationNode(g, node) ==
    [nodes |-> Append(g.nodes, node),
     connections |-> connectNodes(g.connections, g.previousNodeName, node.name),
     previousNodeName |-> g.previousNodeName,
     b |-> advancePosition(g.b)]

RECURSIVE AppendIntegrationNodes(_, _)
AppendIntegrationNodes(newNodes, g) ==
    IF newNodes = <<>> THEN g
    ELSE AppendIntegrationNodes(Tail(newNodes),
             Then(g, LAMBDA x : MainIntegrationNode(x, Head(newNodes))))

\* Step 4: the integration nodes are all made first, then appended
MainIntegration(g, blueprint) ==
    Then(createIntegrationNodes(g.b, blueprint),
         LAMBDA made : AppendIntegrationNodes(made.nodes, [g EXCEPT !.b = made.b]))

\* Step 5: the output node, connected from previousNodeName
MainOutput(g) ==
    LET output == createOutputNode(g.b)
    IN  [nodes |-> Append(g.nodes, output.node),
         connections |-> connectNodes(g.connections, g.previousNodeName, output.node.name),
         previousNodeName |-> g.previousNodeName,
         b |-> advancePosition(output.b)]

\* Step 6: the error-handling nodes, if includeErrorHandling
MainErrorHandling(g, options) ==
    LET errors == createErrorHandlingNodes(g.b)
    IN  IF options.includeErrorHandling
        THEN [g EXCEPT !.nodes = g.nodes \o errors.nodes,
                       !.connections = addErrorHandlingConnections(g.connections, errors.nodes),
                       !.b = errors.b]
        ELSE g

\* The object buildMainWorkflow returns, and the builder fields it leaves
MainReturn(g) ==
    [workflow |-> [name |-> "Main Workflow", nodes |-> g.nodes,
                   connections |-> g.connections, active |-> FALSE],
     b |-> g.b]

\* buildMainWorkflow: steps 1 to 6 in turn
buildMainWorkflow(b0, blueprint, requirements, options) ==
    Then(MainTrigger(b0, requirements), LAMBDA g1 :
    Then(MainValidation(g1, options), LAMBDA g2 :
    Then(MainProcessing(g2, blueprint), LAMBDA g3 :
    Then(MainIntegration(g3, blueprint), LAMBDA g4 :
    Then(MainOutput(g4), LAMBDA g5 :
    Then(MainErrorHandling(g5, options), LAMBDA g6 : MainReturn(g6)))))))

\* buildDataProcessingWorkflow: four fixed nodes in a chain
buildDataProcessingWorkflow(b0) ==
    LET trigger == NewNode(resetCounters(b0), "Data Processing Schedule", "n8n-nodes-base.cron", 0, 0)
        fetch == NewNode(advancePosition(trigger.b), "Fetch Data", "n8n-nodes-base.postgres", 0, 0)
        process == NewNode(advancePosition(fetch.b), "Process Data Batch", "n8n-nodes-base.function", 0, 0)
        update == NewNode(advancePosition(process.b), "Update Status", "n8n-nodes-base.postgres", 0, 0)
    IN  [workflow |-> [name |-> "Data Processing",
                       nodes |-> <<trigger.node, fetch.node, process.node, update.node>>,
                       connections |->
                           connectNodes(connectNodes(connectNodes(NoConnections,
                               "Data Processing Schedule", "Fetch Data"),
                               "Fetch Data", "Process Data Batch"),
                               "Process Data Batch", "Update Status"),
                       active |-> TRUE],
         b |-> update.b]

\* buildMonitoringWorkflow: two fixed nodes
buildMonitoringWorkflow(b0) ==
    LET trigger == NewNode(resetCounters(b0), "Monitoring Schedule", "n8n-nodes-base.cron", 0, 0)
        health == NewNode(advancePosition(trigger.b), "System Health Check", "n8n-nodes-base.function", 0, 0)
    IN  [workflow |-> [name |-> "Monitoring",
                       nodes |-> <<trigger.node, health.node>>,
                       connections |-> connectNodes(NoConnections, "Monitoring Schedule",
                                                    "System Health Check"),
                       active |-> TRUE],
         b |-> health.b]

\* A requiresDataProcessingWorkflow that looks at the component types only
requiresDataProcessingWorkflowByType(blueprint) ==
    \E i \in 1..Len(ComponentsOf(blueprint)) : ComponentsOf(blueprint)[i].type = "storage"

\* components?.some(c => c.type === 'storage' || c.name.includes('Data')) || false
requiresDataProcessingWorkflow(blueprint) ==
    \E i \in 1..Len(ComponentsOf(blueprint)) :
        \/ ComponentsOf(blueprint)[i].type = "storage"
        \/ ComponentNameIncludes(ComponentsOf(blueprint)[i].name, "Data")

\* options.addMonitoring || components?.length > 3   (undefined > 3 is false)
requiresMonitoringWorkflow(blueprint, options) ==
    \/ options.addMonitoring
    \/ blueprint.hasArchitecture /\ Len(blueprint.components) > 3

getDefaultOptions ==
    [includeErrorHandling |-> TRUE, addMonitoring |-> TRUE, securityLevel |-> "standard"]

\* workflows.push(dataWorkflow), if requiresDataProcessingWorkflow
WithDataProcessing(made, blueprint) ==
    LET data == buildDataProcessingWorkflow(made.b)
    IN  IF requiresDataProcessingWorkflow(blueprint)
        THEN [workflows |-> Append(made.workflows, data.workflow), b |-> data.b]
        ELSE made

\* workflows.push(monitoringWorkflow), if requiresMonitoringWorkflow
WithMonitoring(made, blueprint, options) ==
    LET monitoring == buildMonitoringWorkflow(made.b)
    IN  IF requiresMonitoringWorkflow(blueprint, options)
        THEN [workflows |-> Append(made.workflows, monitoring.workflow), b |-> monitoring.b]
        ELSE made

\* generateWorkflowFromBlueprint: the workflows array and the builder fields
generateWorkflowFromBlueprint(b0, blueprint, requirements, options) ==
    Then(buildMainWorkflow(b0, blueprint, requirements, options), LAMBDA main :
    Then(WithDataProcessing([workflows |-> <<main.workflow>>, b |-> main.b], blueprint),
         LAMBDA made : WithMonitoring(made, blueprint, options)))

-----------------------------------------------------------------------------
(* generateWorkflowFromBlueprint on blueprints of up to MaxComponents       *)
(* components and MaxIntegrations integration specs                         *)

MaxComponents == 4

MaxIntegrations == 2

\* Components as callers name and type them: a processor whose name holds
\* 'AI', one whose name holds 'Data', and a storage whose name holds neither
BlueprintComponents ==
    {[name |-> "AI Classifier", type |-> "processor"],
     [name |-> "Data Transformer", type |-> "processor"],
     [name |-> "Order Store", type |-> "storage"]}

BlueprintIntegrations == {[service |-> "HubSpot"], [service |-> "Slack"]}

\* A blueprint: whether technicalArchitecture is there, and its two arrays
Blueprints ==
    {[hasArchitecture |-> FALSE, components |-> <<>>, integrations |-> <<>>]}
    \cup {[hasArchitecture |-> TRUE, components |-> c, integrations |-> i] :
             c \in UNION {[1..n -> BlueprintComponents] : n \in 0..MaxComponents},
             i \in UNION {[1..n -> BlueprintIntegrations] : n \in 0..MaxIntegrations}}

BuilderRequirement(answer) ==
    [category |-> "technical-specs", question |-> "caller", answer |-> answer,
     priority |-> "medium"]

BuilderRequirementLists ==
    {<<>>, <<BuilderRequirement(<<"API", "webhook">>)>>}

\* The options argument; given = FALSE is the call without it
BuilderOptions ==
    {[given |-> TRUE, includeErrorHandling |-> e, addMonitoring |-> m, securityLevel |-> l] :
        e \in BOOLEAN, m \in BOOLEAN, l \in {"basic", "standard", "high"}}
    \cup {[given |-> FALSE, includeErrorHandling |-> FALSE, addMonitoring |-> FALSE,
           securityLevel |-> "basic"]}

\* options: WorkflowGenerationOptions = this.getDefaultOptions()
OptionsOf(args) == IF args.options.given THEN args.options ELSE getDefaultOptions

\* n8nBuilder.generateWorkflowFromBlueprint(blueprint, requirements, options),
\* or without options, on the builder as constructed
GenerateWorkflowFromBlueprint(blueprint, requirements, options) ==
    /\ builderArgs' = <<[blueprint |-> blueprint, requirements |-> requirements,
                         options |-> options]>>
    /\ \E made \in {generateWorkflowFromBlueprint(builder, blueprint, requirements,
                        IF options.given THEN options ELSE getDefaultOptions)} :
           /\ builderResult' = made.workflows
           /\ builder' = made.b
    /\ builderEarlier' = builderArgs
    /\ UNCHANGED <<kbVars, agentVars, intentVars, generatorVars>>

\* One call on the builder as constructed
BuilderNext ==
    /\ builderArgs = <<>>
    /\ \E bp \in Blueprints, r \in BuilderRequirementLists, o \in BuilderOptions :
           GenerateWorkflowFromBlueprint(bp, r, o)

BuilderSpec == Init /\ [][BuilderNext]_vars

\* Blueprints and options of builds made one after another on the one builder
RepeatedBlueprints ==
    {[hasArchitecture |-> FALSE, components |-> <<>>, integrations |-> <<>>],
     [hasArchitecture |-> TRUE, components |-> <<>>, integrations |-> <<>>],
     [hasArchitecture |-> TRUE,
      components |-> <<[name |-> "Data Transformer", type |-> "processor"]>>,
      integrations |-> <<[service |-> "HubSpot"]>>],
     [hasArchitecture |-> TRUE,
      components |-> <<[name |-> "AI Classifier", type |-> "processor"],
                       [name |-> "Order Store", type |-> "storage"]>>,
      integrations |-> <<[service |-> "Slack"], [service |-> "HubSpot"]>>]}

RepeatedOptions ==
    {o \in BuilderOptions :
        \/ ~o.given
        \/ o.includeErrorHandling = o.addMonitoring /\ o.securityLevel # "high"}

\* Any number of calls on the module's one builder (export const n8nBuilder)
RepeatedNext ==
    \E bp \in RepeatedBlueprints, r \in BuilderRequirementLists, o \in RepeatedOptions :
        GenerateWorkflowFromBlueprint(bp, r, o)

RepeatedSpec == Init /\ [][RepeatedNext]_vars

-----------------------------------------------------------------------------
(* analyzeUserIntent on the messages of up to MaxWords words                *)

MaxWords == 2

IntentWords == {"hello", "Orders", "shop", "leads", "customers", "customer", "service",
                "marketing", "support", "API", "database", "scale", "upload"}

IntentMessages == UNION {[1..n -> IntentWords] : n \in 0..MaxWords}

IntentInit ==
    /\ KBInit
    /\ AgentInit
    /\ BuilderIdle
    /\ GeneratorIdle
    /\ intentArgs \in {<<m>> : m \in IntentMessages}
    /\ intentResult = <<>>

AnalyzeUserIntent ==
    /\ intentArgs # <<>>
    /\ intentResult = <<>>
    /\ intentResult' = <<analyzeUserIntent(intentArgs[1])>>
    /\ UNCHANGED <<kbVars, agentVars, intentArgs, builderVars, generatorVars>>

IntentNext == AnalyzeUserIntent

IntentSpec == IntentInit /\ [][IntentNext]_vars

-----------------------------------------------------------------------------
(* BlueprintGenerator: requirement analysis, architecture, costs, ROI, risk *)

\* The generator keywords a lower-cased word of an answer includes as a
\* substring ('email' holds 'ai', 'database' holds 'data')
GeneratorKeywordsIn(word) ==
    CASE word = "database" -> {"database", "data"}
      [] word = "email" -> {"email", "ai"}
      [] word \in {"api", "integration", "connect", "sync", "webhook", "ai", "complex",
                   "compliance", "audit", "orders", "hubspot", "slack", "transform"} -> {word}
      [] OTHER -> {}

\* r.answer.toLowerCase() is a TypeError on a record that has no answer
ThrowsOnAnswers(requirements) ==
    \E i \in 1..Len(requirements) : "answer" \notin DOMAIN requirements[i]

\* requirements.map(r => r.answer.toLowerCase()).join(' ') includes one of the
\* keywords; none of the keywords in use has a space in it
ContentIncludes(requirements, keywords) ==
    \E i \in 1..Len(requirements) : \E j \in 1..Len(requirements[i].answer) :
        GeneratorKeywordsIn(ToLower(requirements[i].answer[j])) \cap keywords # {}

\* groupByCategory: the keys of the groups; a record without category goes
\* under the key 'undefined'
groupByCategory(requirements) ==
    {IF "category" \in DOMAIN requirements[i] THEN requirements[i].category ELSE Undefined :
        i \in 1..Len(requirements)}

countIntegrations(requirements) ==
    Cardinality({keyword \in {"api", "integration", "connect", "sync", "webhook", "database"} :
                    ContentIncludes(requirements, {keyword})})

requiresDataProcessing(requirements) ==
    ContentIncludes(requirements, {"transform", "validate", "process data"})

requiresAI(requirements) ==
    ContentIncludes(requirements, {"ai", "intelligent", "smart", "learning"})

requiresStorage(requirements) ==
    ContentIncludes(requirements, {"store", "database", "save", "history"})

hasComplexBusinessLogic(requirements) ==
    ContentIncludes(requirements, {"complex", "multiple conditions", "decision tree"})

hasComplianceRequirements(requirements) ==
    ContentIncludes(requirements, {"compliance", "regulation", "audit"})

\* A score in which compliance sets the score instead of adding to it
ComplexityScoreComplianceAssigned(requirements) ==
    IF hasComplianceRequirements(requirements) THEN 2
    ELSE (IF countIntegrations(requirements) > 5 THEN 2
          ELSE IF countIntegrations(requirements) > 2 THEN 1 ELSE 0)
         + (IF requiresAI(requirements) THEN 1 ELSE 0)
         + (IF hasComplexBusinessLogic(requirements) THEN 1 ELSE 0)

\* The score assessComplexity adds up
ComplexityScore(requirements) ==
    (IF countIntegrations(requirements) > 5 THEN 2
     ELSE IF countIntegrations(requirements) > 2 THEN 1 ELSE 0)
    + (IF requiresAI(requirements) THEN 1 ELSE 0)
    + (IF hasComplexBusinessLogic(requirements) THEN 1 ELSE 0)
    + (IF hasComplianceRequirements(requirements) THEN 2 ELSE 0)

assessComplexity(requirements) ==
    LET score == ComplexityScore(requirements)
    IN  IF score >= 5 THEN "enterprise"
        ELSE IF score >= 3 THEN "complex"
        ELSE IF score >= 2 THEN "moderate"
        ELSE "simple"

identifyDomain(requirements) ==
    IF ContentIncludes(requirements, {"ecommerce", "e-commerce", "shop", "orders"}) THEN "ecommerce"
    ELSE IF ContentIncludes(requirements, {"crm", "sales", "leads"}) THEN "sales"
    ELSE IF ContentIncludes(requirements, {"data", "analytics", "reporting"}) THEN "data"
    ELSE IF ContentIncludes(requirements, {"support", "customer service", "tickets"}) THEN "support"
    ELSE IF ContentIncludes(requirements, {"marketing", "email", "campaigns"}) THEN "marketing"
    ELSE "general"

estimateDataVolume(requirements) ==
    IF ContentIncludes(requirements, {"million", "thousands per hour", "big data"}) THEN "very-high"
    ELSE IF ContentIncludes(requirements, {"thousands", "hundreds per hour"}) THEN "high"
    ELSE IF ContentIncludes(requirements, {"hundreds", "dozens per hour"}) THEN "medium"
    ELSE "low"

\* identifyCriticalFactors: the factors pushed, in push order
identifyCriticalFactors(requirements) ==
    (IF ContentIncludes(requirements, {"real-time", "immediate"})
     THEN <<"real-time-processing">> ELSE <<>>)
    \o (IF ContentIncludes(requirements, {"scale", "volume"}) THEN <<"scalability">> ELSE <<>>)
    \o (IF ContentIncludes(requirements, {"security", "compliance"})
        THEN <<"security-compliance">> ELSE <<>>)
    \o (IF ContentIncludes(requirements, {"reliable", "uptime"}) THEN <<"reliability">> ELSE <<>>)

\* What a method returned, or the error it threw
Returned(value) == [threw |-> FALSE, value |-> value]

Threw(error) == [threw |-> TRUE, value |-> [error |-> error]]

\* analyzeRequirements: groupByCategory does not throw, assessComplexity does
analyzeRequirements(requirements) ==
    IF ThrowsOnAnswers(requirements) THEN Threw("TypeError")
    ELSE Returned([categories |-> groupByCategory(requirements),
                   complexity |-> assessComplexity(requirements),
                   domain |-> identifyDomain(requirements),
                   integrationCount |-> countIntegrations(requirements),
                   dataVolume |-> estimateDataVolume(requirements),
                   primaryFocus |-> "automation",
                   criticalFactors |-> identifyCriticalFactors(requirements)])

\* generateComponents: name and type of each component, in push order
generateComponents(requirements) ==
    <<[name |-> "Trigger System", type |-> "trigger"]>>
    \o (IF requiresDataProcessing(requirements)
        THEN <<[name |-> "Data Processing Engine", type |-> "processor"]>> ELSE <<>>)
    \o (IF requiresAI(requirements)
        THEN <<[name |-> "AI Decision Engine", type |-> "processor"]>> ELSE <<>>)
    \o <<[name |-> "Integration Layer", type |-> "integrator"]>>
    \o (IF requiresStorage(requirements)
        THEN <<[name |-> "Data Storage", type |-> "storage"]>> ELSE <<>>)
    \o <<[name |-> "Notification System", type |-> "notifier"]>>

\* extractMentionedServices: the services of serviceMap whose keyword the
\* content includes, in the order of the map's keys
extractMentionedServices(requirements) ==
    (IF ContentIncludes(requirements, {"hubspot"}) THEN <<"HubSpot">> ELSE <<>>)
    \o (IF ContentIncludes(requirements, {"stripe"}) THEN <<"Stripe">> ELSE <<>>)
    \o (IF ContentIncludes(requirements, {"slack"}) THEN <<"Slack">> ELSE <<>>)

\* getServiceIntegrationSpec: specs[service], undefined for a service without one
getServiceIntegrationSpec(service) ==
    CASE service = "HubSpot" -> <<[service |-> "HubSpot CRM"]>>
      [] service = "Stripe" -> <<[service |-> "Stripe Payments"]>>
      [] OTHER -> <<>>

\* generateIntegrationSpecs: the specs found, or the default Database spec
generateIntegrationSpecs(requirements) ==
    LET services == extractMentionedServices(requirements)
        RECURSIVE Specs(_)
        Specs(n) == IF n = 0 THEN <<>>
                    ELSE Specs(n - 1) \o getServiceIntegrationSpec(services[n])
        integrations == Specs(Len(services))
    IN  IF Len(integrations) = 0 THEN <<[service |-> "Database"]>> ELSE integrations

estimateWorkflowHours(complexity) ==
    CASE complexity = "simple" -> 16
      [] complexity = "moderate" -> 32
      [] complexity = "complex" -> 64
      [] complexity = "enterprise" -> 120
      [] OTHER -> 24

\* generateImplementationPhases: the estimatedHours of the tasks of each phase
generateImplementationPhases(config) ==
    << <<IF config.timeline = "urgent" THEN 6 ELSE 8, 4, 3>>,
       <<estimateWorkflowHours(config.complexity), 8, 6>>,
       <<16, 8, 12>>,
       <<6, 8, 6>> >>

\* reduce((total, x) => total + x, 0)
RECURSIVE SumOf(_)
SumOf(numbers) == IF numbers = <<>> THEN 0 ELSE Head(numbers) + SumOf(Tail(numbers))

\* calculateCosts: developerRate 100, infrastructure 2400 and maintenance 6000 a year
calculateCosts(phases) ==
    LET totalHours == SumOf([p \in 1..Len(phases) |-> SumOf(phases[p])])
    IN  [development |-> [hours |-> totalHours, rate |-> 100, total |-> totalHours * 100],
         infrastructure |-> [monthly |-> 200, annually |-> 2400],
         maintenance |-> [monthly |-> 500, annually |-> 6000],
         total |-> [initial |-> totalHours * 100,
                    firstYear |-> totalHours * 100 + 2400 + 6000]]

\* Math.round(numerator / denominator * 100), for a positive denominator:
\* the nearest integer, a half going up
RoundPercent(numerator, denominator) ==
    (200 * numerator + denominator) \div (2 * denominator)

\* Math.ceil(numerator / denominator), for a positive denominator
CeilDiv(numerator, denominator) == (numerator + denominator - 1) \div denominator

\* The values Math.floor(Math.random() * 20) can take
RandomDraws == 0..19

\* calculateROI, given what Math.floor(Math.random() * 20) came to; the
\* requirements are not read
calculateROI(requirements, costs, draw) ==
    LET timeSavingsHoursPerWeek == draw + 10
        costSavingsPerMonth == timeSavingsHoursPerWeek * 4 * 50
        threeYearSavings == costSavingsPerMonth * 12 * 3
        threeYearCosts == costs.total.initial + costs.infrastructure.annually * 3
                            + costs.maintenance.annually * 3
    IN  [timeSavingsHoursPerWeek |-> timeSavingsHoursPerWeek,
         costSavingsPerMonth |-> costSavingsPerMonth,
         productivityGainPercentage |-> 45,
         errorReductionPercentage |-> 85,
         paybackPeriodMonths |-> CeilDiv(costs.total.initial, costSavingsPerMonth),
         threeYearROI |-> RoundPercent(threeYearSavings - threeYearCosts, threeYearCosts)]

\* impactScore * probScore of a risk
RiskScore(risk) ==
    (CASE risk.impact = "low" -> 1 [] risk.impact = "medium" -> 2
       [] risk.impact = "high" -> 3 [] risk.impact = "critical" -> 4 [] OTHER -> 2)
    * (CASE risk.probability = "low" -> 1 [] risk.probability = "medium" -> 2
         [] risk.probability = "high" -> 3 [] OTHER -> 2)

\* A calculateOverallRisk that goes by the highest score instead of the average
calculateOverallRiskByHighest(risks) ==
    LET highest == CHOOSE s \in {RiskScore(risks[i]) : i \in 1..Len(risks)} :
                       \A i \in 1..Len(risks) : RiskScore(risks[i]) <= s
    IN  IF highest >= 9 THEN "critical"
        ELSE IF highest >= 6 THEN "high"
        ELSE IF highest >= 3 THEN "medium"
        ELSE "low"

\* calculateOverallRisk: avgScore >= t is sum >= t * length; of no risks the
\* average is NaN, which is below every threshold
calculateOverallRisk(risks) ==
    LET sum == SumOf([i \in 1..Len(risks) |-> RiskScore(risks[i])])
        n == Len(risks)
    IN  IF n > 0 /\ sum >= 9 * n THEN "critical"
        ELSE IF n > 0 /\ sum >= 6 * n THEN "high"
        ELSE IF n > 0 /\ sum >= 3 * n THEN "medium"
        ELSE "low"

\* generateRiskAssessment: countIntegrations(requirements) throws at the
\* operational risk
generateRiskAssessment(requirements, config) ==
    LET risks ==
            (IF config.complexity \in {"complex", "enterprise"}
             THEN <<[id |-> "tech-001", impact |-> "high", probability |-> "medium",
                     category |-> "technical"]>> ELSE <<>>)
            \o <<[id |-> "bus-001", impact |-> "medium", probability |-> "medium",
                  category |-> "business"]>>
            \o (IF countIntegrations(requirements) > 3
                THEN <<[id |-> "ops-001", impact |-> "high", probability |-> "low",
                        category |-> "operational"]>> ELSE <<>>)
    IN  IF ThrowsOnAnswers(requirements) THEN Threw("TypeError")
        ELSE Returned([risks |-> risks, overallRiskLevel |-> calculateOverallRisk(risks)])

\* generateComprehensiveBlueprint, given the draw of its calculateROI call:
\* analyzeRequirements comes first and throws on a record without answer.
\* The blueprint keeps the parts the builder and the ROI figures depend on.
generateComprehensiveBlueprint(requirements, config, draw) ==
    LET costEstimation == calculateCosts(generateImplementationPhases(config))
        roiProjection == calculateROI(requirements, costEstimation, draw)
    IN  IF ThrowsOnAnswers(requirements) THEN Threw("TypeError")
        ELSE Returned([hasArchitecture |-> TRUE,
                       components |-> generateComponents(requirements),
                       integrations |-> generateIntegrationSpecs(requirements),
                       phases |-> generateImplementationPhases(config),
                       riskAssessment |-> generateRiskAssessment(requirements, config).value,
                       estimatedROI |-> roiProjection.threeYearROI])

\* AIEngineerAgent.createProjectBlueprint: a literal
createProjectBlueprint ==
    [hasArchitecture |-> TRUE,
     components |-> <<[name |-> "Data Collector", type |-> "trigger"],
                      [name |-> "Process Engine", type |-> "processor"]>>,
     integrations |-> <<>>,
     phases |-> << <<8>> >>,
     riskAssessment |-> [risks |-> <<>>, overallRiskLevel |-> "low"],
     estimatedROI |-> 250]

-----------------------------------------------------------------------------
(* The blueprint generator on lists of up to MaxGeneratorReqs requirements, *)
(* and the builder on the blueprints it returns                             *)

MaxGeneratorReqs == 2

\* Answers as word lists: compliance; AI, complex logic and three integration
\* keywords; three more integration keywords with storage; a service, a
\* domain and data processing; none of the keywords
GeneratorAnswers ==
    {<<"audit">>,
     <<"AI", "complex", "API", "integration", "connect">>,
     <<"sync", "webhook", "database">>,
     <<"hubspot", "orders", "transform">>,
     <<"hello">>}

\* Requirement records as a caller hands them in: well-formed ones, one
\* without answer and one without category
GeneratorRequirements ==
    {BuilderRequirement(a) : a \in GeneratorAnswers}
    \cup {[category |-> "technical-specs", question |-> "caller", priority |-> "medium"],
          [question |-> "caller", answer |-> <<"audit">>, priority |-> "medium"]}

GeneratorRequirementLists ==
    UNION {[1..n -> GeneratorRequirements] : n \in 0..MaxGeneratorReqs}

\* BlueprintConfig: the two fields the generator's figures depend on
BlueprintConfigs ==
    [complexity : {"simple", "moderate", "complex", "enterprise"},
     timeline : {"urgent", "normal"}]

\* The CostEstimation records calculateCosts returns
CostEstimations ==
    {calculateCosts(generateImplementationPhases(config)) : config \in BlueprintConfigs}

AnalyzeRequirements(requirements) ==
    /\ generatorCall' = [op |-> "analyzeRequirements", requirements |-> requirements]
    /\ generatorResult' = <<analyzeRequirements(requirements)>>
    /\ UNCHANGED <<kbVars, agentVars, intentVars, builderVars>>

\* blueprintGenerator.generateComprehensiveBlueprint(requirements, config)
GenerateComprehensiveBlueprint(requirements, config) ==
    /\ generatorCall' = [op |-> "generateComprehensiveBlueprint",
                         requirements |-> requirements, config |-> config]
    /\ \E draw \in RandomDraws :
           generatorResult' = <<generateComprehensiveBlueprint(requirements, config, draw)>>
    /\ UNCHANGED <<kbVars, agentVars, intentVars, builderVars>>

GenerateRiskAssessment(requirements, config) ==
    /\ generatorCall' = [op |-> "generateRiskAssessment",
                         requirements |-> requirements, config |-> config]
    /\ generatorResult' = <<generateRiskAssessment(requirements, config)>>
    /\ UNCHANGED <<kbVars, agentVars, intentVars, builderVars>>

CalculateROI(requirements, costs) ==
    /\ generatorCall' = [op |-> "calculateROI", requirements |-> requirements, costs |-> costs]
    /\ \E draw \in RandomDraws :
           generatorResult' = <<Returned(calculateROI(requirements, costs, draw))>>
    /\ UNCHANGED <<kbVars, agentVars, intentVars, builderVars>>

\* The same call of calculateROI once more
CalculateROIAgain ==
    /\ generatorCall.op = "calculateROI"
    /\ CalculateROI(generatorCall.requirements, generatorCall.costs)

\* The blueprint of the agent's blueprint phase
CreateProjectBlueprint ==
    /\ generatorCall' = [op |-> "createProjectBlueprint", requirements |-> <<>>]
    /\ generatorResult' = <<Returned(createProjectBlueprint)>>
    /\ UNCHANGED <<kbVars, agentVars, intentVars, builderVars>>

\* n8nBuilder.generateWorkflowFromBlueprint on the blueprint just returned and
\* the requirements it was made from, without options or with the barest ones
CompileBlueprint ==
    /\ generatorCall.op \in {"generateComprehensiveBlueprint", "createProjectBlueprint"}
    /\ ~generatorResult[1].threw
    /\ builderArgs = <<>>
    /\ \E options \in {o \in BuilderOptions :
                          \/ ~o.given
                          \/ ~o.includeErrorHandling /\ ~o.addMonitoring
                               /\ o.securityLevel = "basic"} :
           GenerateWorkflowFromBlueprint(generatorResult[1].value,
                                         generatorCall.requirements, options)

\* One call of a generator method, calculateROI possibly repeated, and then
\* the compilation of the blueprint
GeneratorNext ==
    \/ /\ generatorCall.op = "none"
       /\ \E r \in GeneratorRequirementLists : AnalyzeRequirements(r)
    \/ /\ generatorCall.op = "none"
       /\ \E r \in GeneratorRequirementLists, c \in BlueprintConfigs :
              GenerateComprehensiveBlueprint(r, c)
    \/ /\ generatorCall.op = "none"
       /\ \E r \in GeneratorRequirementLists, c \in BlueprintConfigs :
              GenerateRiskAssessment(r, c)
    \/ /\ generatorCall.op = "none"
       /\ \E r \in {<<>>, <<BuilderRequirement(<<"audit">>)>>}, costs \in CostEstimations :
              CalculateROI(r, costs)
    \/ /\ generatorCall.op = "none"
       /\ CreateProjectBlueprint
    \/ CalculateROIAgain
    \/ CompileBlueprint

\* The callers of the generator hold no requirement arrays of the agent
GeneratorInit == Init /\ reqHeap["c1"] = <<>>

GeneratorSpec == GeneratorInit /\ [][GeneratorNext]_vars

-----------------------------------------------------------------------------
(* Queries on the shared template store (the exported singleton workflowKB) *)

KBNext ==
    \/ \E q \in Queries, f \in FilterSets : KBSearch(q, f)
    \/ \E id \in IdArgs : KBGetById(id)
    \/ \E c \in CategoryArgs : KBGetByCategory(c)
    \/ \E n \in Limits : KBGetPopular(n)
    \/ \E r \in RequirementTexts : KBGetRecommended(r)
    \/ KBGetAllCategories
    \/ KBGetStats

KBSpec == Init /\ [][KBNext]_vars

-----------------------------------------------------------------------------
(* Properties of the conversation phase                                     *)

Rank == [p \in Phases |->
            CASE p = "discovery" -> 1
              [] p = "requirements" -> 2
              [] p = "blueprint" -> 3
              [] p = "implementation" -> 4
              [] OTHER -> 5]

\* The current requirement list and the last entry of the current history
CurrentRequirements == reqHeap[ctx.requirements]

LastReply(r) == IF histHeap[r] = <<>> THEN <<"none">> ELSE histHeap[r][Len(histHeap[r])].content

\* C1 as stated: over every public operation (processMessage with or without a
\* context argument, resetContext) the phase after the operation is never
\* lower than the phase before it.
C1_PhaseNeverRegresses ==
    [][Rank[ctx'.phase] >= Rank[ctx.phase]]_vars

\* C1 amended: a processMessage call whose context argument carries no phase
\* never lowers the phase; resetContext puts the phase back to discovery.
C1_NoRegressWithoutPhaseArgument ==
    [][/\ (\E m \in Messages, a \in ContextArgs :
               a.phase = Undefined /\ ProcessMessage(m, a))
           => Rank[ctx'.phase] >= Rank[ctx.phase]
       /\ ResetContext => ctx'.phase = "discovery"]_vars

\* After a reset the conversation has advanced again from discovery
C1_Witness ==
    /\ resets = 1
    /\ ctx.phase = "requirements"
    /\ ctx.chatHistory = AgentRef
    /\ Len(histHeap[AgentRef]) = 2
    /\ histHeap[AgentRef][2].type = "business-process"

\* C2 as stated: processMessage moves requirements -> blueprint only when the
\* completeness is at least 0.8, and from every state whose phase is
\* requirements and whose completeness is below 0.8 it leaves the phase at
\* requirements.
C2_BlueprintOnlyFromCompleteState ==
    [][(/\ \E m \in Messages, a \in ContextArgs : ProcessMessage(m, a)
        /\ ctx.phase = "requirements")
       => /\ ctx'.phase = "blueprint"
               => assessRequirementsCompleteness(reqHeap'[ctx'.requirements]) >= 80
          /\ assessRequirementsCompleteness(CurrentRequirements) < 80
               => ctx'.phase = "requirements"]_vars

\* C2 amended: a processMessage call made in phase requirements with no phase
\* in its context argument ends in blueprint if the completeness of the
\* requirement list as the call leaves it (context merged, the message's own
\* requirements pushed) is at least 0.8, and in requirements otherwise.
C2_BlueprintIffCompleteAfterPush ==
    [][(/\ \E m \in Messages, a \in ContextArgs :
               a.phase = Undefined /\ ProcessMessage(m, a)
        /\ ctx.phase = "requirements")
       => ctx'.phase = IF assessRequirementsCompleteness(reqHeap'[ctx'.requirements]) >= 80
                       THEN "blueprint" ELSE "requirements"]_vars

\* The transition was taken: all four critical categories are covered
C2_Witness ==
    /\ ctx.phase = "blueprint"
    /\ LastReply(ctx.chatHistory) = <<"blueprint-ready">>
    /\ assessRequirementsCompleteness(CurrentRequirements) = 100

\* C3 as stated: a processMessage call advances the phase by at most one step,
\* and from discovery the phase becomes requirements exactly when the message's
\* intent is business-process and stays discovery otherwise.
C3_OneStepAndDiscoveryRule ==
    [][\A m \in Messages, a \in ContextArgs :
          ProcessMessage(m, a)
          => /\ Rank[ctx'.phase] <= Rank[ctx.phase] + 1
             /\ ctx.phase = "discovery"
                  => ctx'.phase = IF analyzeUserIntent(m).type = "business-process"
                                  THEN "requirements" ELSE "discovery"]_vars

\* C3 amended: the same, for a call whose context argument carries no phase.
C3_OneStepWithoutPhaseArgument ==
    [][\A m \in Messages, a \in ContextArgs :
          (a.phase = Undefined /\ ProcessMessage(m, a))
          => /\ Rank[ctx'.phase] <= Rank[ctx.phase] + 1
             /\ ctx.phase = "discovery"
                  => ctx'.phase = IF analyzeUserIntent(m).type = "business-process"
                                  THEN "requirements" ELSE "discovery"]_vars

\* A business-process message took the conversation out of discovery
C3_Witness ==
    /\ ctx.phase = "requirements"
    /\ LastReply(ctx.chatHistory) = <<"workflow-patterns">>
    /\ resets = 0

\* C4: a conversation of user messages only goes through all four phases: it
\* reaches requirements, later blueprint and later implementation.
C4_ReachesAllPhases ==
    <>(ctx.phase = "requirements"
       /\ <>(ctx.phase = "blueprint" /\ <>(ctx.phase = "implementation")))

\* What the code does instead: such a conversation never leaves requirements
C4_NeverBeyondRequirements ==
    ctx.phase \in {"discovery", "requirements"}

\* C5: a call resumed after its await pushes its reply onto the chatHistory of
\* its own conversation and leaves the arrays of every other conversation alone.
C5_ReplyLandsInOwnConversation ==
    [][CallResume =>
          LET own == Head(pending).conv
          IN  /\ Len(histHeap'[own]) = Len(histHeap[own]) + 1
              /\ \A other \in Conversations \ {own} :
                     /\ histHeap'[other] = histHeap[other]
                     /\ reqHeap'[other] = reqHeap[other]]_vars

-----------------------------------------------------------------------------
(* Properties of the requirement list                                       *)

Covered(list) == {list[i].category : i \in 1..Len(list)}

\* C7: the completeness of every requirement list is the number of distinct
\* critical categories it covers, out of four; appending a record whose
\* category is already covered or is not critical does not change it.
C7_CompletenessCountsCategories ==
    \A r \in Refs :
        LET list == reqHeap[r]
        IN  /\ assessRequirementsCompleteness(list)
                 = 25 * Cardinality(Covered(list) \cap Range(criticalCategories))
            /\ \A c \in RequirementCategories :
                   (c \in Covered(list) \/ c \notin Range(criticalCategories))
                   => assessRequirementsCompleteness(Append(list, CallerRequirement(c)))
                        = assessRequirementsCompleteness(list)

\* A list with three records of two categories
C7_Witness ==
    /\ Len(reqHeap[AgentRef]) = 3
    /\ Covered(reqHeap[AgentRef]) = {"business-process", "integrations"}
    /\ assessRequirementsCompleteness(reqHeap[AgentRef]) = 50

-----------------------------------------------------------------------------
(* Properties of the template store                                         *)

WorkflowCategories ==
    {"e-commerce", "crm-sales", "marketing-automation", "data-processing",
     "customer-support", "finance-accounting", "hr-recruiting", "social-media",
     "content-management", "analytics-reporting", "communication", "project-management",
     "security-monitoring", "ai-ml-automation", "api-webhooks", "data-transformation"}

\* C8: no query changes the store's template sequence or its indexes.
C8_StoreReadOnly ==
    /\ workflows = LoadOrder
    /\ categories = BuildCategoryIndex(LoadOrder)
    /\ tagIndex = BuildTagIndex(LoadOrder)
    /\ integrationIndex = BuildIntegrationIndex(LoadOrder)

\* C9: getRecommendedWorkflows returns, for given requirement texts, the list
\* it returns on the freshly built store, whatever was queried before.
C9_RecommendationIndependentOfHistory ==
    kbCall.op = "getRecommendedWorkflows"
    => kbResult = GetRecommendedWorkflows(LoadOrder, kbCall.requirements)

\* The loaded templates of a category, in load order
LoadedOfCategory(c) == FilterSeq(LoadOrder, {t \in TemplateIds : WorkflowData[t].category = c})

\* C10: after any queries, getWorkflowById finds every loaded template and
\* getWorkflowsByCategory returns the loaded templates of the category in load
\* order.
C10_LookupsAgreeWithLoadedSet ==
    /\ \A t \in TemplateIds : GetWorkflowById(workflows, t) = <<t>>
    /\ \A c \in WorkflowCategories : GetWorkflowsByCategory(categories, c) = LoadedOfCategory(c)
    /\ kbCall.op = "getWorkflowById"
         => kbResult = IF kbCall.id \in TemplateIds THEN <<kbCall.id>> ELSE <<>>
    /\ kbCall.op = "getWorkflowsByCategory" => kbResult = LoadedOfCategory(kbCall.category)

\* A lookup by id made after a query has reordered the store
C10_Witness ==
    /\ workflows # LoadOrder
    /\ kbCall.op = "getWorkflowById"
    /\ kbResult = <<"lead-scoring-qualification">>

-----------------------------------------------------------------------------
(* WorkflowKnowledgeBase: search and ranking                                *)

\* C11: searchWorkflows(query) without filters returns exactly the templates
\* in which every whitespace-separated, lower-cased token of the query occurs
\* in the name, the description or a tag.  Whitespace is a space or a tab.
C11_SearchConjunctiveOverWhitespaceTokens ==
    LET onTab(piece) == CASE piece = "ai\tlead" -> {"ai", "lead"}
                          [] piece = "" -> {}
                          [] OTHER -> {piece}
        tokens(query) == UNION {onTab(ToLower(query[i])) : i \in 1..Len(query)}
    IN  (kbCall.op = "searchWorkflows" /\ kbCall.filters = NoFilters)
            => Range(kbResult) = {id \in TemplateIds :
                                    \A t \in tokens(kbCall.query) :
                                        \/ t \in WorkflowData[id].nameHas
                                        \/ t \in WorkflowData[id].descHas
                                        \/ t \in WorkflowData[id].tagHas}

\* The position at which initializeWorkflows pushed the template
LoadPosition(id) == CHOOSE i \in 1..Len(LoadOrder) : LoadOrder[i] = id

\* a comes before b: more popular, or equally popular and loaded earlier
BeforeByPopularity(a, b) ==
    \/ Popularity[a] > Popularity[b]
    \/ Popularity[a] = Popularity[b] /\ LoadPosition(a) < LoadPosition(b)

\* C12: the lists returned by searchWorkflows and getPopularWorkflows(n) are in
\* non-increasing popularity order with equal popularity in load order, and
\* getPopularWorkflows(n) returns exactly the first min(n, number of
\* templates) templates of that ordering, whatever queries ran before.
C12_ResultsOrderedByPopularity ==
    /\ kbCall.op \in {"searchWorkflows", "getPopularWorkflows"}
          => \A i, j \in 1..Len(kbResult) :
                 i < j => BeforeByPopularity(kbResult[i], kbResult[j])
    /\ kbCall.op = "getPopularWorkflows"
          => /\ Len(kbResult) = Min(kbCall.limit, Cardinality(TemplateIds))
             /\ \A i \in 1..Len(kbResult) :
                    Cardinality({t \in TemplateIds : BeforeByPopularity(t, kbResult[i])}) = i - 1

\* getPopularWorkflows(2) answered from a store that an earlier query had
\* already reordered and whose first two templates in load order are not the
\* two most popular
C12_Witness ==
    /\ kbCall.op = "getPopularWorkflows"
    /\ kbCall.limit = 2
    /\ kbResult = <<"ecommerce-order-processing", "social-media-content-pipeline">>
    /\ workflows # LoadOrder

\* C13: getRecommendedWorkflows gives each template the score 3 per keyword
\* that hits its name + 2 per keyword that hits its description + 1 per
\* keyword that hits a tag, returns no template of score 0 and at most 10
\* templates, ordered by non-increasing score with equal scores in load order.
C13_RecommendationScoredAndOrdered ==
    kbCall.op = "getRecommendedWorkflows" =>
        LET keywords == [i \in 1..Len(kbCall.requirements) |-> ToLower(kbCall.requirements[i])]
            hits(id, has) == Cardinality({i \in 1..Len(keywords) : keywords[i] \in has})
            score == [id \in TemplateIds |->
                        3 * hits(id, WorkflowData[id].nameHas)
                        + 2 * hits(id, WorkflowData[id].descHas)
                        + hits(id, WorkflowData[id].tagHas)]
        IN  /\ Len(kbResult) <= 10
            /\ Range(kbResult) \subseteq {id \in TemplateIds : score[id] > 0}
            /\ Cardinality({id \in TemplateIds : score[id] > 0}) <= 10
                   => Range(kbResult) = {id \in TemplateIds : score[id] > 0}
            /\ \A i, j \in 1..Len(kbResult) :
                   i < j => \/ score[kbResult[i]] > score[kbResult[j]]
                            \/ /\ score[kbResult[i]] = score[kbResult[j]]
                               /\ LoadPosition(kbResult[i]) < LoadPosition(kbResult[j])

-----------------------------------------------------------------------------
(* AIEngineerAgent: intent analysis                                         *)

\* C14: analyzeUserIntent returns the intent and the confidence of the
\* earliest keyword set, in the order e-commerce, CRM/sales, marketing,
\* support, technical, scale, of which the message includes a keyword, and
\* general-inquiry with confidence 0.5 when it includes none.
C14_FirstMatchingKeywordSetWins ==
    intentResult # <<>> =>
        LET sets == <<
              [keywords |-> {"ecommerce", "e-commerce", "online store", "shop", "orders", "products"},
               type |-> "business-process", confidence |-> 90, label |-> <<"ecommerce">>],
              [keywords |-> {"lead", "leads", "crm", "sales", "prospects", "customers"},
               type |-> "business-process", confidence |-> 85, label |-> <<"crm", "sales">>],
              [keywords |-> {"marketing", "email", "social media", "content", "campaigns"},
               type |-> "business-process", confidence |-> 80, label |-> <<"marketing">>],
              [keywords |-> {"support", "tickets", "customer service", "helpdesk"},
               type |-> "business-process", confidence |-> 80, label |-> <<"support">>],
              [keywords |-> {"api", "database", "integration", "webhook", "data"},
               type |-> "technical-requirement", confidence |-> 70, label |-> <<"technical">>],
              [keywords |-> {"scale", "volume", "performance", "load", "capacity"},
               type |-> "scale-requirement", confidence |-> 70, label |-> <<"scale">>] >>
            message == intentArgs[1]
            matching == {k \in 1..Len(sets) :
                           \E kw \in sets[k].keywords : Includes(message, kw)}
            intent == intentResult[1]
        IN  IF matching = {}
            THEN intent.type = "general-inquiry" /\ intent.confidence = 50
            ELSE \E k \in matching :
                     /\ \A j \in matching : k <= j
                     /\ intent.type = sets[k].type
                     /\ intent.confidence = sets[k].confidence
                     /\ intent.keywords = sets[k].label

\* A message that includes a technical keyword and, after it, an e-commerce one
C14_Witness ==
    /\ intentArgs = << <<"API", "Orders">> >>
    /\ intentResult # <<>>
    /\ intentResult[1].type = "business-process"
    /\ intentResult[1].confidence = 90

-----------------------------------------------------------------------------
(* N8nWorkflowBuilder: the shape of the generated graphs                    *)

\* The call that has returned: its arguments, the options in force, the main graph
Args == builderArgs[1]

Options == OptionsOf(Args)

MainGraph == builderResult[1]

NodeNames(graph) == [i \in 1..Len(graph.nodes) |-> graph.nodes[i].name]

TriggerNames == {"Webhook Trigger", "Schedule Trigger", "Email Trigger", "Manual Trigger"}

ProcessingNames == {"AI Processing", "Transform Data", "Process Data"}

IntegrationNames == {"HubSpot Integration", "Salesforce Integration", "Stripe Integration",
                     "Database Insert", "API Integration"}

ErrorNames == {"Error Handler", "Error Notification"}

Max(a, b) == IF a >= b THEN a ELSE b

\* C15: the node list of the main graph is, in this order: one trigger node;
\* one validation node iff securityLevel is not basic; max(1, number of
\* processor components) processing nodes; max(1, number of integration
\* specs) integration nodes; one output node; then the two error-handling
\* nodes iff includeErrorHandling.
C15_MainGraphNodeList ==
    builderResult # <<>> =>
        LET names == NodeNames(MainGraph)
            components == ComponentsOf(Args.blueprint)
            v == IF Options.securityLevel # "basic" THEN 1 ELSE 0
            p == Max(1, Cardinality({i \in 1..Len(components) : components[i].type = "processor"}))
            n == Max(1, Len(IntegrationsOf(Args.blueprint)))
            e == IF Options.includeErrorHandling THEN 2 ELSE 0
        IN  /\ Len(names) = 1 + v + p + n + 1 + e
            /\ names[1] \in TriggerNames
            /\ v = 1 => names[2] = "Input Validation"
            /\ \A i \in (1 + v + 1)..(1 + v + p) : names[i] \in ProcessingNames
            /\ \A i \in (1 + v + p + 1)..(1 + v + p + n) : names[i] \in IntegrationNames
            /\ names[1 + v + p + n + 1] = "Send Notification"
            /\ e = 2 => /\ names[Len(names) - 1] = "Error Handler"
                        /\ names[Len(names)] = "Error Notification"

\* A main graph with a validation node, two processing nodes, two integration
\* nodes and the error-handling nodes
C15_Witness ==
    /\ builderResult # <<>>
    /\ NodeNames(MainGraph) = <<"Webhook Trigger", "Input Validation", "AI Processing",
                                "Transform Data", "HubSpot Integration", "API Integration",
                                "Send Notification", "Error Handler", "Error Notification">>

\* The names that the connections of graph lead to from the node called from
Successors(graph, from) ==
    IF from \in DOMAIN graph.connections
    THEN UNION {{graph.connections[from][port][k].node :
                    k \in 1..Len(graph.connections[from][port])} :
                port \in 1..Len(graph.connections[from])}
    ELSE {}

\* The number of connection entries recorded under the node called from
OutDegree(graph, from) ==
    IF from \in DOMAIN graph.connections THEN Len(graph.connections[from]) ELSE 0

\* The names reachable from the names in seen by following connections
RECURSIVE ReachableFrom(_, _)
ReachableFrom(graph, seen) ==
    LET next == seen \cup UNION {Successors(graph, n) : n \in seen}
    IN  IF next = seen THEN seen ELSE ReachableFrom(graph, next)

\* The names of the main-path nodes of a graph, in node-list order: all nodes
\* but the error-handling ones
MainPath(graph) == SelectSeq(NodeNames(graph), LAMBDA n : n \notin ErrorNames)

\* C16: the main path of the main graph is a linear chain: each main-path node
\* after the trigger is wired from the node appended immediately before it,
\* and no main-path node has more than one outbound connection.
C16_MainPathIsLinearChain ==
    builderResult # <<>> =>
        LET path == MainPath(MainGraph)
        IN  /\ \A i \in 2..Len(path) : path[i] \in Successors(MainGraph, path[i - 1])
            /\ \A i \in 1..Len(path) : OutDegree(MainGraph, path[i]) <= 1

\* C17: in every returned graph the trigger node is the target of no
\* connection and every other main-path node is the target of at least one.
C17_TriggerHasNoInboundOthersHave ==
    \A w \in 1..Len(builderResult) :
        LET graph == builderResult[w]
            path == MainPath(graph)
            targets == UNION {Successors(graph, from) : from \in DOMAIN graph.connections}
        IN  /\ path[1] \notin targets
            /\ \A i \in 2..Len(path) : path[i] \in targets

\* A call that returned all three graphs, the main one with two integration nodes
C17_Witness ==
    /\ Len(builderResult) = 3
    /\ Len(IntegrationsOf(Args.blueprint)) = 2
    /\ Len(MainPath(MainGraph)) >= 6

C19_MainGraphAcyclic ==
    builderResult # <<>> =>
        \A n \in ReachableFrom(MainGraph, {MainGraph.nodes[1].name}) :
            /\ n \notin Successors(MainGraph, n)
            /\ n \notin ReachableFrom(MainGraph, Successors(MainGraph, n))

\* The names of the returned graphs, in order
GraphNames == [w \in 1..Len(builderResult) |-> builderResult[w].name]

\* Whether the returned graphs are the main graph, then the 4-node
\* data-processing graph iff withData, then the 2-node monitoring graph iff
\* withMonitoring, and nothing else
ReturnsGraphs(withData, withMonitoring) ==
    /\ GraphNames = <<"Main Workflow">>
                     \o (IF withData THEN <<"Data Processing">> ELSE <<>>)
                     \o (IF withMonitoring THEN <<"Monitoring">> ELSE <<>>)
    /\ \A w \in 1..Len(builderResult) :
           /\ builderResult[w].name = "Data Processing"
                 => NodeNames(builderResult[w]) = <<"Data Processing Schedule", "Fetch Data",
                                                    "Process Data Batch", "Update Status">>
           /\ builderResult[w].name = "Monitoring"
                 => NodeNames(builderResult[w]) = <<"Monitoring Schedule", "System Health Check">>

HasStorage == \E i \in 1..Len(ComponentsOf(Args.blueprint)) :
                  ComponentsOf(Args.blueprint)[i].type = "storage"

HasDataName == \E i \in 1..Len(ComponentsOf(Args.blueprint)) :
                   ComponentsOf(Args.blueprint)[i].name \in {"Data Transformer"}

WantsMonitoring == Options.addMonitoring \/ Len(ComponentsOf(Args.blueprint)) > 3

\* C20: generateWorkflowFromBlueprint returns the main graph first, then the
\* fixed 4-node data-processing graph exactly when the blueprint has a
\* component of type storage, then the fixed 2-node monitoring graph exactly
\* when addMonitoring is set or the blueprint has more than 3 components.
C20_SupportingGraphsByStorage ==
    builderResult # <<>> => ReturnsGraphs(HasStorage, WantsMonitoring)

\* C20, amended: the data-processing graph is returned exactly when the
\* blueprint has a component of type storage or a component whose name
\* contains 'Data'.
C20_SupportingGraphsByStorageOrDataName ==
    builderResult # <<>> => ReturnsGraphs(HasStorage \/ HasDataName, WantsMonitoring)

\* A blueprint whose only component is a processor named with 'Data': the
\* data-processing graph is returned though nothing is of type storage
C20_Witness ==
    /\ builderResult # <<>>
    /\ ~HasStorage
    /\ HasDataName
    /\ GraphNames = <<"Main Workflow", "Data Processing">>

-----------------------------------------------------------------------------
(* Properties of the blueprint generator                                    *)

\* The last generator call was of this method and returned / threw
GeneratorReturned(op) ==
    generatorCall.op = op /\ ~generatorResult[1].threw

GeneratorThrew(op) ==
    generatorCall.op = op /\ generatorResult[1].threw

\* C21: with zero requirements analyzeRequirements yields domain general and
\* complexity simple, and compiling the blueprint generated from them returns
\* a single graph whose nodes are trigger, generic processing node, generic
\* HTTP integration node and notification node, in this order.
C21_ZeroRequirementsGiveOneGenericChain ==
    /\ (GeneratorReturned("analyzeRequirements") /\ generatorCall.requirements = <<>>)
       => /\ generatorResult[1].value.domain = "general"
          /\ generatorResult[1].value.complexity = "simple"
    /\ (GeneratorReturned("generateComprehensiveBlueprint")
          /\ generatorCall.requirements = <<>> /\ builderArgs # <<>>)
       => /\ Len(builderResult) = 1
          /\ NodeNames(builderResult[1])
               = <<"Manual Trigger", "Process Data", "API Integration", "Send Notification">>


\* The records of a list that have both an answer and a category
WellFormed(requirements) ==
    SelectSeq(requirements, LAMBDA r : {"answer", "category"} \subseteq DOMAIN r)

\* C22: a requirement record without answer or without category never makes
\* analysis, blueprint generation or risk assessment end in an error: the
\* call returns what it returns for the well-formed records of the list.
C22_MalformedRecordsAreSkipped ==
    /\ generatorCall.op = "analyzeRequirements"
       => generatorResult[1] = analyzeRequirements(WellFormed(generatorCall.requirements))
    /\ generatorCall.op = "generateRiskAssessment"
       => generatorResult[1]
            = generateRiskAssessment(WellFormed(generatorCall.requirements), generatorCall.config)
    /\ generatorCall.op = "generateComprehensiveBlueprint"
       => \E draw \in RandomDraws :
              generatorResult[1]
                = generateComprehensiveBlueprint(WellFormed(generatorCall.requirements),
                                                 generatorCall.config, draw)


\* C23: calculateROI is deterministic: a second call with the same
\* requirements and the same CostEstimation returns what the first returned.
C23_CalculateROIDeterministic ==
    [][(generatorCall.op = "calculateROI" /\ generatorCall' = generatorCall)
       => generatorResult' = generatorResult]_vars


\* C24: in every blueprint produced, by generateComprehensiveBlueprint or by
\* the agent's blueprint phase, estimatedROI is the threeYearROI that
\* calculateROI gives for the cost estimation of the blueprint's own
\* implementation plan.
C24_EstimatedROIFromOwnCosts ==
    (GeneratorReturned("generateComprehensiveBlueprint")
       \/ GeneratorReturned("createProjectBlueprint"))
    => LET blueprint == generatorResult[1].value
       IN  \E draw \in RandomDraws :
               blueprint.estimatedROI
                 = calculateROI(generatorCall.requirements, calculateCosts(blueprint.phases),
                                draw).threeYearROI


\* simple < moderate < complex < enterprise
ComplexityRank ==
    [level \in {"simple", "moderate", "complex", "enterprise"} |->
        CASE level = "simple" -> 1 [] level = "moderate" -> 2
          [] level = "complex" -> 3 [] OTHER -> 4]

\* The list analyzeRequirements was called on is a list R followed by a
\* requirement whose answer holds a compliance keyword
EndsWithCompliance ==
    /\ GeneratorReturned("analyzeRequirements")
    /\ Len(generatorCall.requirements) > 0
    /\ hasComplianceRequirements(
           <<generatorCall.requirements[Len(generatorCall.requirements)]>>)

\* C25: for a requirement list R and a requirement r whose answer holds a
\* compliance keyword, the complexity score and the complexity level of R
\* followed by r are not lower than those of R.
C25_ComplianceNeverLowersComplexity ==
    EndsWithCompliance
    => LET all == generatorCall.requirements
           R == SubSeq(all, 1, Len(all) - 1)
       IN  /\ ComplexityScore(all) >= ComplexityScore(R)
           /\ ComplexityRank[generatorResult[1].value.complexity]
                >= ComplexityRank[assessComplexity(R)]

\* The compliance requirement lifted a complex project to enterprise
C25_Witness ==
    /\ EndsWithCompliance
    /\ Len(generatorCall.requirements) = 2
    /\ assessComplexity(<<generatorCall.requirements[1]>>) = "complex"
    /\ generatorResult[1].value.complexity = "enterprise"


-----------------------------------------------------------------------------
(* Properties of a conversation without context arguments                   *)

-----------------------------------------------------------------------------
(* Properties of the risk assessment                                        *)

\* C27: every risk assessment generateRiskAssessment returns has
\* overallRiskLevel medium: whichever of the technical, business and
\* operational risks it holds, their average score is at least 3 and below 6.
C27_OverallRiskAlwaysMedium ==
    GeneratorReturned("generateRiskAssessment")
    => LET risks == generatorResult[1].value.risks
           sum == SumOf([i \in 1..Len(risks) |-> RiskScore(risks[i])])
       IN  /\ generatorResult[1].value.overallRiskLevel = "medium"
           /\ \E i \in 1..Len(risks) : risks[i].category = "business"
           /\ 3 * Len(risks) <= sum
           /\ sum < 6 * Len(risks)

\* All three risks are in the assessment
C27_Witness ==
    /\ GeneratorReturned("generateRiskAssessment")
    /\ {generatorResult[1].value.risks[i].category :
           i \in 1..Len(generatorResult[1].value.risks)}
         = {"technical", "business", "operational"}
    /\ generatorResult[1].value.overallRiskLevel = "medium"


-----------------------------------------------------------------------------
(* Properties of the documents the builder returns                          *)

\* C28: in every graph generateWorkflowFromBlueprint returns the node names
\* are pairwise distinct.
C28_NodeNamesPairwiseDistinct ==
    \A g \in 1..Len(builderResult) :
        \A i, j \in 1..Len(builderResult[g].nodes) :
            builderResult[g].nodes[i].name = builderResult[g].nodes[j].name => i = j


\* C29: every graph generateWorkflowFromBlueprint returns is referentially
\* closed: each key of its connection map and each target named in a
\* connection entry is the name of a node of the same graph, and every
\* connection entry has type main and index 0.
C29_ConnectionsReferentiallyClosed ==
    \A g \in 1..Len(builderResult) :
        LET graph == builderResult[g]
        IN  \A from \in DOMAIN graph.connections :
                /\ from \in Range(NodeNames(graph))
                /\ \A port \in 1..Len(graph.connections[from]) :
                       \A e \in 1..Len(graph.connections[from][port]) :
                           /\ graph.connections[from][port][e].node \in Range(NodeNames(graph))
                           /\ graph.connections[from][port][e].type = "main"
                           /\ graph.connections[from][port][e].index = 0

\* Three graphs came back, and the main one has at least six connection entries
C29_Witness ==
    /\ Len(builderResult) = 3
    /\ Cardinality(DOMAIN builderResult[1].connections) >= 4
    /\ \E from \in DOMAIN builderResult[1].connections :
           Len(builderResult[1].connections[from]) >= 3

\* C30: the shared builder carries nothing from one build to the next: after
\* any sequence of generateWorkflowFromBlueprint calls, the last result is what
\* a newly constructed builder returns for the same arguments, the first node
\* of each of its graphs has id node_1 at (300, 300), and the node ids of each
\* graph are pairwise distinct
C30_BuildsIndependentOfEarlierCalls ==
    builderArgs # <<>> =>
        /\ builderResult =
               generateWorkflowFromBlueprint(BuilderNew, Args.blueprint, Args.requirements,
                                             Options).workflows
        /\ \A g \in 1..Len(builderResult) :
               /\ builderResult[g].nodes[1].id = 1
               /\ builderResult[g].nodes[1].position = <<300, 300>>
               /\ \A i, j \in 1..Len(builderResult[g].nodes) :
                      builderResult[g].nodes[i].id = builderResult[g].nodes[j].id => i = j

\* A build made after an earlier build with other arguments, which left the
\* counter and the cursor away from their starting values, and which returned
\* three graphs
C30_Witness ==
    /\ builderEarlier # <<>>
    /\ builderArgs # <<>>
    /\ builderEarlier # builderArgs
    /\ builderEarlier[1].blueprint.components # <<>>
    /\ builder # BuilderNew
    /\ Len(builderResult) = 3

=============================================================================
